---- MODULE Spec2Model ----
(***************************************************************************)
(* Panel-layout and leftover-reuse engine of Model-V7 (core/services.py).  *)
(*                                                                         *)
(* All lengths are millimetres and are integers here; the rooms and        *)
(* parameters explored have integer coordinates, for which the float       *)
(* arithmetic of the source is exact.                                      *)
(***************************************************************************)
EXTENDS Integers, Sequences, FiniteSets, TLC

VARIABLES
    tracker,    \* a LeftoverTracker instance: [leftovers, stats]
    clock,      \* last reading of time.time()
    born,       \* history: born[i] = insertion number of tracker.leftovers[i]
    nadds,      \* number of add_leftover calls so far (bounds the run)
    nuses,      \* number of use_leftover calls so far (bounds the run)
    last,       \* history: the last operation, its arguments and its result
    project,    \* the rooms of the project, in id order: [id, points]
    params,     \* the parameters of the generation request
    phase,      \* where the generation pass is: "generate", "done", "error"
    cursor,     \* number of rooms the pass has gone through
    all_panels, \* the panels emitted so far, each with its room_id
    roomlog,    \* history: per room gone through, [room_id, failed, skipped]
    analysis,   \* the answer of the orientation analysis, <<>> before it
    regions,    \* the rectangles the shape decomposer answered, <<>> before it
    table,      \* the stored panel rows (CeilingPanel or FloorPanel), by room id
    plans,      \* the ids of the rooms that have a stored plan
    workers,    \* per request handler: the pass it is serving and its position
    npass,      \* number of passes requested so far
    nfaults,    \* number of storage errors raised so far (bounds the run)
    lastdone    \* history: the pass that answered last

invVars == <<born, nadds, nuses, last>>
genVars == <<project, params, phase, cursor, all_panels, roomlog, analysis,
            regions>>
dbVars == <<table, plans, workers, npass, nfaults, lastdone>>
vars == <<tracker, clock, invVars, genVars, dbVars>>

(***************************************************************************)
(* Sequence helpers                                                        *)
(***************************************************************************)
RemoveAt(s, i) == [k \in 1..(Len(s) - 1) |-> IF k < i THEN s[k] ELSE s[k + 1]]

Min2(a, b) == IF a <= b THEN a ELSE b

(***************************************************************************)
(* LeftoverTracker                                                         *)
(***************************************************************************)
MAX_PANEL_WIDTH == 1150

EmptyStats ==
    [leftovers_created |-> 0, leftovers_reused |-> 0,
     full_panels_saved |-> 0, total_leftover_area |-> 0]

\* LeftoverTracker.__init__
NewTracker == [leftovers |-> <<>>, stats |-> EmptyStats]

\* The dict built by add_leftover.  Both clock readings of one call are
\* modelled by the single reading `now`: the id carries it (in ms) together
\* with the list length at creation, created_at carries it again.
NewLeftover(trk, length, thickness, width_remaining, now) ==
    [id         |-> <<now, Len(trk.leftovers)>>,
     length     |-> length,
     thickness  |-> thickness,
     width      |-> width_remaining,
     created_at |-> now]

\* LeftoverTracker.add_leftover
add_leftover(trk, length, thickness, width_remaining, now) ==
    IF width_remaining > 0
    THEN [leftovers |-> Append(trk.leftovers,
                               NewLeftover(trk, length, thickness, width_remaining, now)),
          stats     |-> [trk.stats EXCEPT
                           !.leftovers_created = @ + 1,
                           !.total_leftover_area = @ + length * width_remaining]]
    ELSE trk

\* Mutant of the test of find_compatible_leftover: a leftover made at clock
\* reading 0 is never taken.
Compatible_aged(lo, needed_width, needed_length, needed_thickness) ==
    /\ lo.length >= needed_length
    /\ lo.thickness = needed_thickness
    /\ lo.width >= needed_width
    /\ lo.created_at > 0

\* Mutant of the test of find_compatible_leftover: the remaining width of
\* the leftover is not looked at.
Compatible_anywidth(lo, needed_width, needed_length, needed_thickness) ==
    /\ lo.length >= needed_length
    /\ lo.thickness = needed_thickness

\* The test of the loop body of find_compatible_leftover.
Compatible(lo, needed_width, needed_length, needed_thickness) ==
    /\ lo.length >= needed_length
    /\ lo.thickness = needed_thickness
    /\ lo.width >= needed_width

RECURSIVE ScanFrom(_, _, _, _, _)
ScanFrom(ls, i, needed_width, needed_length, needed_thickness) ==
    IF i > Len(ls) THEN 0
    ELSE IF Compatible(ls[i], needed_width, needed_length, needed_thickness)
         THEN i
         ELSE ScanFrom(ls, i + 1, needed_width, needed_length, needed_thickness)

\* Mutant of find_compatible_leftover: best fit (smallest sufficient width).
find_compatible_leftover_bestfit(trk, needed_width, needed_length, needed_thickness) ==
    LET ls == trk.leftovers
        ok == {i \in 1..Len(ls) :
                 Compatible(ls[i], needed_width, needed_length, needed_thickness)}
    IN  IF ok = {} THEN 0
        ELSE CHOOSE i \in ok :
               \A j \in ok : \/ ls[i].width < ls[j].width
                             \/ (ls[i].width = ls[j].width /\ i <= j)

\* LeftoverTracker.find_compatible_leftover: the position of the returned
\* dict in self.leftovers, 0 for None.
find_compatible_leftover(trk, needed_width, needed_length, needed_thickness) ==
    ScanFrom(trk.leftovers, 1, needed_width, needed_length, needed_thickness)

\* list.remove(x): removes the first element equal to x (dict equality
\* compares every key), not the element that is x.
RECURSIVE FirstEqual(_, _, _)
FirstEqual(ls, x, j) ==
    IF j > Len(ls) THEN 0
    ELSE IF ls[j] = x THEN j ELSE FirstEqual(ls, x, j + 1)

ListRemove(ls, x) == RemoveAt(ls, FirstEqual(ls, x, 1))

\* Mutant of use_leftover: an exhausted leftover is kept with its new width.
use_leftover_keep(trk, i, width_used) ==
    [leftovers |-> [trk.leftovers EXCEPT ![i].width = @ - width_used],
     stats     |-> [trk.stats EXCEPT
                      !.leftovers_reused = @ + 1,
                      !.full_panels_saved = @ + 1]]

\* LeftoverTracker.use_leftover, on the dict at position i of self.leftovers.
use_leftover(trk, i, width_used) ==
    LET leftover == trk.leftovers[i]
        remaining_width == leftover.width - width_used
    IN  [leftovers |-> IF remaining_width > 0
                       THEN [trk.leftovers EXCEPT ![i].width = remaining_width]
                       ELSE ListRemove(trk.leftovers, leftover),
         stats     |-> [trk.stats EXCEPT
                          !.leftovers_reused = @ + 1,
                          !.full_panels_saved = @ + 1]]

\* LeftoverTracker.cleanup_leftovers
cleanup_leftovers(trk) ==
    [trk EXCEPT !.leftovers = SelectSeq(trk.leftovers, LAMBDA lo : lo.width > 0)]

(***************************************************************************)
(* Geometry.  A room polygon is a sequence of points [x, y].  Points that  *)
(* are tested against a polygon are passed with doubled coordinates, so    *)
(* that the centre start + size / 2 of a panel stays an integer.           *)
(***************************************************************************)
Max2(a, b) == IF a >= b THEN a ELSE b

Abs(a) == IF a >= 0 THEN a ELSE -a

Pt(x, y) == [x |-> x, y |-> y]

MinOf(S) == CHOOSE m \in S : \A k \in S : m <= k

MaxOf(S) == CHOOSE m \in S : \A k \in S : m >= k

XCoords(points) == {points[i].x : i \in 1..Len(points)}

YCoords(points) == {points[i].y : i \in 1..Len(points)}

Box(min_x, max_x, min_y, max_y, type) ==
    [min_x |-> min_x, max_x |-> max_x, min_y |-> min_y, max_y |-> max_y,
     width |-> max_x - min_x, height |-> max_y - min_y, type |-> type]

\* CeilingService._calculate_room_bounding_box
calculate_room_bounding_box(room_points) ==
    Box(MinOf(XCoords(room_points)), MaxOf(XCoords(room_points)),
        MinOf(YCoords(room_points)), MaxOf(YCoords(room_points)), "bounding_box")

\* The shoelace sum before it is halved: twice the signed area.
RECURSIVE Shoelace(_, _)
Shoelace(points, i) ==
    IF i > Len(points) THEN 0
    ELSE LET j == (i % Len(points)) + 1
         IN  points[i].x * points[j].y - points[j].x * points[i].y
             + Shoelace(points, i + 1)

\* Twice _calculate_polygon_area / _calculate_room_area.
PolygonArea2(points) == IF Len(points) < 3 THEN 0 ELSE Abs(Shoelace(points, 1))

\* One iteration of the ray-casting loop for the edge p1 -> p2 and the
\* point (x, y), all in doubled coordinates: TRUE when `inside` is flipped.
\* x <= xinters is compared after multiplying through by (p2y - p1y).
EdgeFlips(x, y, p1, p2) ==
    /\ y > Min2(p1.y, p2.y)
    /\ y <= Max2(p1.y, p2.y)
    /\ x <= Max2(p1.x, p2.x)
    /\ \/ p1.x = p2.x
       \/ IF p2.y > p1.y
          THEN (x - p1.x) * (p2.y - p1.y) <= (y - p1.y) * (p2.x - p1.x)
          ELSE (x - p1.x) * (p2.y - p1.y) >= (y - p1.y) * (p2.x - p1.x)

\* _is_point_in_polygon for the doubled point (x2, y2).
is_point_in_polygon(x2, y2, polygon_points) ==
    LET n == Len(polygon_points)
        D(i) == Pt(2 * polygon_points[i].x, 2 * polygon_points[i].y)
        flips == {i \in 1..n : EdgeFlips(x2, y2, D(i), D((i % n) + 1))}
    IN  Cardinality(flips) % 2 = 1

\* _calculate_enhanced_panel_coverage, in quarters: 4 stands for 1.0.
calculate_enhanced_panel_coverage(start_x, start_y, width, height, room_points) ==
    LET corners == <<Pt(2 * start_x, 2 * start_y),
                     Pt(2 * (start_x + width), 2 * start_y),
                     Pt(2 * (start_x + width), 2 * (start_y + height)),
                     Pt(2 * start_x, 2 * (start_y + height))>>
        corners_in_room ==
            Cardinality({k \in 1..4 :
                           is_point_in_polygon(corners[k].x, corners[k].y, room_points)})
    IN  IF is_point_in_polygon(2 * start_x + width, 2 * start_y + height, room_points)
        THEN 4
        ELSE corners_in_room

\* _detect_l_shape: area_ratio < 0.8, False when the division raises.
detect_l_shape(points) ==
    LET room_area == (MaxOf(XCoords(points)) - MinOf(XCoords(points)))
                     * (MaxOf(YCoords(points)) - MinOf(YCoords(points)))
    IN  /\ Len(points) >= 4
        /\ room_area # 0
        /\ 5 * PolygonArea2(points) < 8 * room_area

\* The cutout search of _split_l_shaped_room: <<>> stands for None.
RECURSIVE FindCutout(_, _, _)
FindCutout(points, i, cutout) ==
    IF i > Len(points) THEN cutout
    ELSE LET pt == points[i]
             inner == /\ pt.x # MinOf(XCoords(points))
                      /\ pt.x # MaxOf(XCoords(points))
                      /\ pt.y # MinOf(YCoords(points))
                      /\ pt.y # MaxOf(YCoords(points))
             take == inner /\ (cutout = <<>> \/ (pt.x > cutout[1].x /\ pt.y > cutout[1].y))
         IN  FindCutout(points, i + 1, IF take THEN <<pt>> ELSE cutout)

\* Mutant of _create_vertical_split_regions: the lower arm runs the full
\* width, as the bottom strip of the horizontal split does.
create_vertical_split_regions_wide(points, cutout_x, cutout_y) ==
    <<Box(MinOf(XCoords(points)), MaxOf(XCoords(points)), cutout_y,
          MaxOf(YCoords(points)), "bottom_left_vertical_arm"),
      Box(cutout_x, MaxOf(XCoords(points)), MinOf(YCoords(points)),
          MaxOf(YCoords(points)), "right_vertical_arm")>>

\* _create_vertical_split_regions
create_vertical_split_regions(points, cutout_x, cutout_y) ==
    <<Box(MinOf(XCoords(points)), cutout_x, cutout_y, MaxOf(YCoords(points)),
          "bottom_left_vertical_arm"),
      Box(cutout_x, MaxOf(XCoords(points)), MinOf(YCoords(points)),
          MaxOf(YCoords(points)), "right_vertical_arm")>>

\* _create_horizontal_split_regions
create_horizontal_split_regions(points, cutout_x, cutout_y) ==
    <<Box(cutout_x, MaxOf(XCoords(points)), MinOf(YCoords(points)), cutout_y,
          "top_right_arm"),
      Box(MinOf(XCoords(points)), MaxOf(XCoords(points)), cutout_y,
          MaxOf(YCoords(points)), "bottom_arm")>>

\* _split_l_shaped_room: no regions when no inner corner is found or when
\* one of its coordinates is falsy (0).
split_l_shaped_room(points, orientation) ==
    LET cutout == FindCutout(points, 1, <<>>)
    IN  IF cutout = <<>> \/ cutout[1].x = 0 \/ cutout[1].y = 0 THEN <<>>
        ELSE IF orientation = "vertical"
             THEN create_vertical_split_regions(points, cutout[1].x, cutout[1].y)
             ELSE create_horizontal_split_regions(points, cutout[1].x, cutout[1].y)

\* _analyze_room_shape
analyze_room_shape(room_points, bounding_box, orientation) ==
    IF Len(room_points) < 3 THEN <<>>
    ELSE IF detect_l_shape(room_points)
         THEN split_l_shaped_room(room_points, orientation)
         ELSE <<[bounding_box EXCEPT !.type = "rectangular"]>>

(***************************************************************************)
(* Tiling.  The loops thread a record                                      *)
(*   st = [panels, trk, tracked, clock, panel_id, failed]:                 *)
(* the panels emitted so far, the LeftoverTracker (tracked = FALSE when    *)
(* the argument is None), the last clock reading, the next panel number    *)
(* and whether an exception left the tiler.  opt holds what does not       *)
(* change during a pass: [max_panel_width, auto, panel_length, thickness,  *)
(* tick]; auto is TRUE for panel_length = 'auto' (panel_length is then 0), *)
(* tick is the amount by which the clock advances between two readings     *)
(* (0: every reading of the pass is the same).                             *)
(***************************************************************************)
Notes(note, id) == [note |-> note, id |-> id, boundary |-> FALSE]

\* f"CP_H_{n:03d}", f"CP_V_{n:03d}", f"FP_{n:03d}"
PanelId(prefix, n) == [prefix |-> prefix, n |-> n]

\* The "LEFTOVER TRACKING" block shared by the four tiling loops.  strict is
\* TRUE for the floor loops, which mark every panel narrower than
\* MAX_PANEL_WIDTH as cut when there is no tracker.
CutDecision(st, opt, cross, along, strict) ==
    LET plain == [trk |-> st.trk, clock |-> st.clock, is_cut |-> FALSE,
                  cut_notes |-> Notes("", <<>>), from_leftover |-> FALSE]
    IN  IF cross < MAX_PANEL_WIDTH
        THEN IF st.tracked
             THEN LET i == find_compatible_leftover(st.trk, cross, along, opt.thickness)
                  IN  IF i # 0
                      THEN [trk |-> use_leftover(st.trk, i, cross),
                            clock |-> st.clock,
                            is_cut |-> TRUE,
                            cut_notes |-> Notes("From leftover", st.trk.leftovers[i].id),
                            from_leftover |-> TRUE]
                      ELSE LET leftover_width == MAX_PANEL_WIDTH - cross
                               now == st.clock + opt.tick
                           IN  [trk |-> IF leftover_width > 0
                                        THEN add_leftover(st.trk, along, opt.thickness,
                                                          leftover_width, now)
                                        ELSE st.trk,
                                clock |-> IF leftover_width > 0 THEN now ELSE st.clock,
                                is_cut |-> TRUE,
                                cut_notes |-> Notes("Cut from full panel", <<>>),
                                from_leftover |-> FALSE]
             ELSE IF strict \/ cross < opt.max_panel_width
                  THEN [plain EXCEPT !.is_cut = TRUE,
                                     !.cut_notes = Notes("Non-standard size", <<>>)]
                  ELSE plain
        ELSE plain

\* One pass of the body of the inner while loop of _generate_panels_for_region.
EmitCeiling(st, region, opt, x, y, w, h, cross, along, prefix) ==
    LET d == CutDecision(st, opt, cross, along, FALSE)
        over == x + w > region.max_x \/ y + h > region.max_y
        cut_notes == IF ~over THEN d.cut_notes
                     ELSE IF d.cut_notes.note \notin {"", "Non-standard size"}
                          THEN [d.cut_notes EXCEPT !.boundary = TRUE]
                          ELSE Notes("Boundary extension", <<>>)
        panel == [start_x |-> x, start_y |-> y, end_x |-> x + w, end_y |-> y + h,
                  width |-> w, length |-> h,
                  is_cut |-> d.is_cut \/ over,
                  cut_notes |-> cut_notes,
                  panel_id |-> PanelId(prefix, st.panel_id),
                  area |-> w * h,
                  region_type |-> region.type]
    IN  [st EXCEPT !.panels = Append(@, panel), !.trk = d.trk, !.clock = d.clock,
                   !.panel_id = @ + 1]

\* horizontal orientation: the inner loop over current_y of one column
RECURSIVE CeilingColumn(_, _, _, _, _, _)
CeilingColumn(st, region, opt, current_x, current_panel_width, current_y) ==
    IF ~(current_y < region.max_y) THEN st
    ELSE LET panel_height == Min2(opt.max_panel_width, region.max_y - current_y)
             st2 == IF panel_height > 0 /\ current_panel_width > 0
                    THEN EmitCeiling(st, region, opt, current_x, current_y,
                                     current_panel_width, panel_height,
                                     panel_height, current_panel_width, "CP_H")
                    ELSE st
         IN  CeilingColumn(st2, region, opt, current_x, current_panel_width,
                           current_y + panel_height)

\* horizontal orientation: the outer loop over current_x
RECURSIVE CeilingColumns(_, _, _, _, _)
CeilingColumns(st, region, opt, panel_width, current_x) ==
    IF ~(current_x < region.max_x) THEN st
    ELSE CeilingColumns(
             CeilingColumn(st, region, opt, current_x,
                           Min2(panel_width, region.max_x - current_x), region.min_y),
             region, opt, panel_width, current_x + panel_width)

\* vertical orientation: the inner loop over current_x of one row
RECURSIVE CeilingRow(_, _, _, _, _, _)
CeilingRow(st, region, opt, current_y, current_panel_height, current_x) ==
    IF ~(current_x < region.max_x) THEN st
    ELSE LET panel_width == Min2(opt.max_panel_width, region.max_x - current_x)
             st2 == IF panel_width > 0 /\ current_panel_height > 0
                    THEN EmitCeiling(st, region, opt, current_x, current_y,
                                     panel_width, current_panel_height,
                                     panel_width, current_panel_height, "CP_V")
                    ELSE st
         IN  CeilingRow(st2, region, opt, current_y, current_panel_height,
                        current_x + panel_width)

\* Mutant of the outer loop of the vertical branch: it is left after its
\* first pass.
CeilingRows_once(st, region, opt, panel_height, current_y) ==
    CeilingRow(st, region, opt, current_y,
               Min2(panel_height, region.max_y - current_y), region.min_x)

\* vertical orientation: the outer loop over current_y
RECURSIVE CeilingRows(_, _, _, _, _)
CeilingRows(st, region, opt, panel_height, current_y) ==
    IF ~(current_y < region.max_y) THEN st
    ELSE CeilingRows(
             CeilingRow(st, region, opt, current_y,
                        Min2(panel_height, region.max_y - current_y), region.min_x),
             region, opt, panel_height, current_y + panel_height)

\* Mutant of _generate_panels_for_region: the stripes start at the origin
\* instead of the region's own corner.
generate_panels_for_region_origin(st, region, orientation, opt) ==
    IF orientation = "horizontal"
    THEN CeilingColumns(st, region, opt,
                        IF opt.auto THEN region.width
                        ELSE opt.panel_length,
                        0)
    ELSE CeilingRows(st, region, opt,
                     IF opt.auto THEN region.height
                     ELSE opt.panel_length,
                     0)

\* _generate_panels_for_region: st.panels are the region's panels, numbered
\* from st.panel_id on.
generate_panels_for_region(st, region, orientation, opt) ==
    IF orientation = "horizontal"
    THEN CeilingColumns(st, region, opt,
                        IF opt.auto THEN region.width
                        ELSE opt.panel_length,
                        region.min_x)
    ELSE CeilingRows(st, region, opt,
                     IF opt.auto THEN region.height
                     ELSE opt.panel_length,
                     region.min_y)

\* _adjust_panel_to_room_boundaries: <<>> stands for None.
adjust_panel_to_room_boundaries(panel, room_points) ==
    LET panel_coverage == calculate_enhanced_panel_coverage(
                              panel.start_x, panel.start_y, panel.width, panel.length,
                              room_points)
    IN  IF 10 * panel_coverage > 32 THEN <<panel>>
        ELSE IF 10 * panel_coverage > 12
             THEN <<[panel EXCEPT !.is_cut = TRUE,
                                  !.cut_notes = Notes("Shape adjusted", <<>>)]>>
             ELSE <<>>

\* _optimize_panels_for_room_shape
RECURSIVE optimize_panels_for_room_shape(_, _, _)
optimize_panels_for_room_shape(panels, room_points, i) ==
    IF i > Len(panels) THEN <<>>
    ELSE LET panel == panels[i]
             panel_coverage == calculate_enhanced_panel_coverage(
                                   panel.start_x, panel.start_y, panel.width,
                                   panel.length, room_points)
             kept == IF 10 * panel_coverage > 20
                     THEN adjust_panel_to_room_boundaries(panel, room_points)
                     ELSE <<>>
         IN  kept \o optimize_panels_for_room_shape(panels, room_points, i + 1)

\* The loop over the regions in _generate_shape_aware_panels.
RECURSIVE CeilingRegions(_, _, _, _, _)
CeilingRegions(st, room_regions, orientation, opt, i) ==
    IF i > Len(room_regions) THEN st
    ELSE CeilingRegions(
             generate_panels_for_region(st, room_regions[i], orientation, opt),
             room_regions, orientation, opt, i + 1)

\* _generate_shape_aware_panels.  With no regions it calls
\* _generate_simple_panels_fallback with seven arguments where that takes
\* five: the TypeError is raised again from the except clause and leaves the
\* function (failed); the callers turn it into an empty panel list.
generate_shape_aware_panels(st, bounding_box, room_points, orientation, opt) ==
    LET room_regions == analyze_room_shape(room_points, bounding_box, orientation)
        tiled == CeilingRegions([st EXCEPT !.panels = <<>>, !.panel_id = 1],
                                room_regions, orientation, opt, 1)
    IN  IF room_regions = <<>>
        THEN [st EXCEPT !.panels = <<>>, !.failed = TRUE]
        ELSE [tiled EXCEPT !.panels = optimize_panels_for_room_shape(@, room_points, 1),
                           !.failed = FALSE]

\* _generate_advanced_panels -> _generate_horizontal_panels ("vertical") or
\* _generate_vertical_panels ("horizontal"): both tile the room's own
\* bounding box; an exception gives no panels.
generate_advanced_panels(st, room_points, orientation, opt) ==
    generate_shape_aware_panels(st, calculate_room_bounding_box(room_points),
                                room_points, orientation, opt)

(***************************************************************************)
(* Floor tiling                                                            *)
(***************************************************************************)
DEFAULT_WALL_THICKNESS == 200

\* FloorService._calculate_room_floor_bounding_box: <<>> stands for None.
calculate_room_floor_bounding_box(room_points, wall_thickness) ==
    LET min_x == MinOf(XCoords(room_points)) + wall_thickness
        max_x == MaxOf(XCoords(room_points)) - wall_thickness
        min_y == MinOf(YCoords(room_points)) + wall_thickness
        max_y == MaxOf(YCoords(room_points)) - wall_thickness
    IN  IF Len(room_points) < 3 \/ min_x >= max_x \/ min_y >= max_y THEN <<>>
        ELSE <<Box(min_x, max_x, min_y, max_y, "bounding_box")>>

\* One pass of the body of the inner while loop of
\* _generate_standard_floor_panels.
EmitFloor(st, bounding_box, opt, x, y, w, h, cross, along) ==
    LET d == CutDecision(st, opt, cross, along, TRUE)
        over == x + w > bounding_box.max_x \/ y + h > bounding_box.max_y
        cut_notes == IF ~over THEN d.cut_notes
                     ELSE IF d.cut_notes.note # ""
                          THEN [d.cut_notes EXCEPT !.boundary = TRUE]
                          ELSE Notes("Boundary extension", <<>>)
        panel == [panel_id |-> PanelId("FP", st.panel_id),
                  start_x |-> x, start_y |-> y, end_x |-> x + w, end_y |-> y + h,
                  width |-> w, length |-> h,
                  is_cut |-> d.is_cut \/ over,
                  cut_notes |-> cut_notes,
                  from_leftover |-> d.from_leftover]
    IN  [st EXCEPT !.panels = Append(@, panel), !.trk = d.trk, !.clock = d.clock,
                   !.panel_id = @ + 1]

\* horizontal orientation: the inner loop over current_y of one column
RECURSIVE FloorColumn(_, _, _, _, _, _)
FloorColumn(st, bounding_box, opt, current_x, current_panel_width, current_y) ==
    IF ~(current_y < bounding_box.max_y) THEN st
    ELSE LET panel_height == Min2(opt.max_panel_width, bounding_box.max_y - current_y)
             st2 == IF panel_height > 0 /\ current_panel_width > 0
                    THEN EmitFloor(st, bounding_box, opt, current_x, current_y,
                                   current_panel_width, panel_height,
                                   panel_height, current_panel_width)
                    ELSE st
         IN  FloorColumn(st2, bounding_box, opt, current_x, current_panel_width,
                         current_y + panel_height)

\* horizontal orientation: the outer loop over current_x
RECURSIVE FloorColumns(_, _, _, _, _)
FloorColumns(st, bounding_box, opt, panel_length_actual, current_x) ==
    IF ~(current_x < bounding_box.max_x) THEN st
    ELSE FloorColumns(
             FloorColumn(st, bounding_box, opt, current_x,
                         Min2(panel_length_actual, bounding_box.max_x - current_x),
                         bounding_box.min_y),
             bounding_box, opt, panel_length_actual, current_x + panel_length_actual)

\* vertical orientation: the inner loop over current_x of one row
RECURSIVE FloorRow(_, _, _, _, _, _)
FloorRow(st, bounding_box, opt, current_y, current_panel_height, current_x) ==
    IF ~(current_x < bounding_box.max_x) THEN st
    ELSE LET panel_width_actual == Min2(opt.max_panel_width,
                                        bounding_box.max_x - current_x)
             st2 == IF panel_width_actual > 0 /\ current_panel_height > 0
                    THEN EmitFloor(st, bounding_box, opt, current_x, current_y,
                                   panel_width_actual, current_panel_height,
                                   panel_width_actual, current_panel_height)
                    ELSE st
         IN  FloorRow(st2, bounding_box, opt, current_y, current_panel_height,
                      current_x + panel_width_actual)

\* vertical orientation: the outer loop over current_y
RECURSIVE FloorRows(_, _, _, _, _)
FloorRows(st, bounding_box, opt, panel_length_actual, current_y) ==
    IF ~(current_y < bounding_box.max_y) THEN st
    ELSE LET current_panel_height == Min2(panel_length_actual,
                                          bounding_box.max_y - current_y)
         IN  FloorRows(
                 FloorRow(st, bounding_box, opt, current_y, current_panel_height,
                          bounding_box.min_x),
                 bounding_box, opt, panel_length_actual,
                 current_y + current_panel_height)

\* _generate_standard_floor_panels: panels numbered from 1.
generate_standard_floor_panels(st, bounding_box, orientation, opt) ==
    LET extent == IF orientation = "horizontal"
                  THEN bounding_box.max_x - bounding_box.min_x
                  ELSE bounding_box.max_y - bounding_box.min_y
        panel_length_actual == Min2(IF opt.auto THEN extent ELSE opt.panel_length, extent)
        st0 == [st EXCEPT !.panels = <<>>, !.panel_id = 1]
    IN  IF orientation = "horizontal"
        THEN FloorColumns(st0, bounding_box, opt, panel_length_actual, bounding_box.min_x)
        ELSE IF orientation = "vertical"
             THEN FloorRows(st0, bounding_box, opt, panel_length_actual,
                            bounding_box.min_y)
             ELSE st0

\* Renumbering loop of _generate_panels_for_floor_region.
Renumber(panels, start_panel_id) ==
    [k \in 1..Len(panels) |->
        [panels[k] EXCEPT !.panel_id = PanelId("FP", start_panel_id + k - 1)]]

\* _generate_panels_for_floor_region: the standard tiler on the region,
\* called without a tracker.
\* Mutant of _generate_panels_for_floor_region: the panels keep the ids the
\* standard tiler gave them, counted from 1 in every region.
generate_panels_for_floor_region_from1(region, orientation, opt, start_panel_id) ==
    LET st0 == [panels |-> <<>>, trk |-> NewTracker, tracked |-> FALSE, clock |-> 0,
                panel_id |-> 1, failed |-> FALSE]
    IN  generate_standard_floor_panels(st0, region, orientation, opt).panels

generate_panels_for_floor_region(region, orientation, opt, start_panel_id) ==
    LET st0 == [panels |-> <<>>, trk |-> NewTracker, tracked |-> FALSE, clock |-> 0,
                panel_id |-> 1, failed |-> FALSE]
    IN  Renumber(generate_standard_floor_panels(st0, region, orientation, opt).panels,
                 start_panel_id)

\* The loop over the regions in _generate_shape_aware_floor_panels.
RECURSIVE FloorRegions(_, _, _, _, _)
FloorRegions(panels, room_regions, orientation, opt, i) ==
    IF i > Len(room_regions) THEN panels
    ELSE FloorRegions(
             panels \o generate_panels_for_floor_region(room_regions[i], orientation,
                                                        opt, 1 + Len(panels)),
             room_regions, orientation, opt, i + 1)

\* _generate_shape_aware_floor_panels
generate_shape_aware_floor_panels(st, bounding_box, room_points, orientation, opt) ==
    LET room_regions == analyze_room_shape(room_points, bounding_box, orientation)
    IN  IF room_regions = <<>>
        THEN generate_standard_floor_panels(st, bounding_box, orientation, opt)
        ELSE [st EXCEPT !.panels = FloorRegions(<<>>, room_regions, orientation, opt, 1)]

\* _generate_floor_panels
generate_floor_panels(st, bounding_box, room_points, orientation, opt) ==
    IF Len(room_points) > 4
    THEN generate_shape_aware_floor_panels(st, bounding_box, room_points,
                                           orientation, opt)
    ELSE generate_standard_floor_panels(st, bounding_box, orientation, opt)

(***************************************************************************)
(* The inventory on its own: any sequence of add / find / use / cleanup    *)
(* calls on one LeftoverTracker.                                           *)
(***************************************************************************)
MaxAdds      == 2
MaxUses      == 2
MaxClock     == 1
MaxLeftovers == 2

InvLengths     == {3000, 5000}
InvThicknesses == {20, 150}
InvWidths      == {0, 400, 750}
InvUseWidths   == {400, 750}

NoOp == [op |-> "init", a |-> 0, b |-> 0, c |-> 0, res |-> 0]

\* The inventory on its own has no project and no pass.
NoGeneration ==
    /\ project = <<>>
    /\ params = <<>>
    /\ phase = "none"
    /\ cursor = 0
    /\ all_panels = <<>>
    /\ roomlog = <<>>
    /\ analysis = <<>>
    /\ regions = <<>>

\* Nothing stored, no request handler at work.
NoPersistence ==
    /\ table = <<>>
    /\ plans = {}
    /\ workers = <<>>
    /\ npass = 0
    /\ nfaults = 0
    /\ lastdone = <<>>

InitInventory ==
    /\ tracker = NewTracker
    /\ born = <<>>
    /\ clock = 0
    /\ nadds = 0
    /\ nuses = 0
    /\ last = NoOp
    /\ NoGeneration
    /\ NoPersistence

\* The wall clock either repeats its last reading or has advanced.
ClockReadings == {t \in {clock, clock + 1} : t <= MaxClock}

Add(length, thickness, width_remaining, now) ==
    /\ tracker' = add_leftover(tracker, length, thickness, width_remaining, now)
    /\ born' = IF Len(tracker'.leftovers) > Len(tracker.leftovers)
               THEN Append(born, nadds + 1) ELSE born
    /\ clock' = now
    /\ nadds' = nadds + 1
    /\ last' = [op |-> "add", a |-> width_remaining, b |-> length, c |-> thickness,
                res |-> 0]
    /\ UNCHANGED <<nuses, genVars, dbVars>>

Find(needed_width, needed_length, needed_thickness) ==
    /\ last' = [op |-> "find", a |-> needed_width, b |-> needed_length,
                c |-> needed_thickness,
                res |-> find_compatible_leftover(tracker, needed_width,
                                                 needed_length, needed_thickness)]
    /\ UNCHANGED <<tracker, born, clock, nadds, nuses, genVars, dbVars>>

Use(i, width_used) ==
    /\ i \in 1..Len(tracker.leftovers)
    /\ tracker' = use_leftover(tracker, i, width_used)
    /\ born' = IF Len(tracker'.leftovers) = Len(tracker.leftovers) THEN born
               ELSE RemoveAt(born, FirstEqual(tracker.leftovers, tracker.leftovers[i], 1))
    /\ nuses' = nuses + 1
    /\ last' = [op |-> "use", a |-> width_used, b |-> i, c |-> 0, res |-> 0]
    /\ UNCHANGED <<clock, nadds, genVars, dbVars>>

Cleanup ==
    /\ last.op \notin {"cleanup", "init"}
    /\ tracker' = cleanup_leftovers(tracker)
    /\ last' = [NoOp EXCEPT !.op = "cleanup"]
    /\ UNCHANGED <<born, clock, nadds, nuses, genVars, dbVars>>

NextInventory ==
    \/ \E l \in InvLengths, t \in InvThicknesses, w \in InvWidths, now \in ClockReadings :
          /\ nadds < MaxAdds
          /\ Len(tracker.leftovers) < MaxLeftovers
          /\ Add(l, t, w, now)
    \/ \E w \in InvUseWidths, l \in InvLengths, t \in InvThicknesses : Find(w, l, t)
    \/ \E i \in 1..MaxLeftovers, w \in InvUseWidths :
          /\ nuses < MaxUses
          /\ Use(i, w)
    \/ Cleanup

SpecInventory == InitInventory /\ [][NextInventory]_vars

(***************************************************************************)
(* The same tracker driven longer over one stock size, so that ids repeat: *)
(* an id is "<ms>_<len(self.leftovers)>", and the list length comes back   *)
(* to an earlier value once leftovers have been removed.                   *)
(***************************************************************************)
DeepAdds      == 5
DeepUses      == 3
DeepLeftovers == 4

DeepLengths == {3000}
DeepWidths  == {400, 750}

NextInventoryDeep ==
    \/ \E l \in DeepLengths, w \in DeepWidths, now \in ClockReadings :
          /\ nadds < DeepAdds
          /\ Len(tracker.leftovers) < DeepLeftovers
          /\ Add(l, 20, w, now)
    \/ \E w \in DeepWidths, l \in DeepLengths : Find(w, l, 20)
    \/ \E i \in 1..DeepLeftovers, w \in DeepWidths :
          /\ nuses < DeepUses
          /\ Use(i, w)
    \/ Cleanup

SpecInventoryDeep == InitInventory /\ [][NextInventoryDeep]_vars

(***************************************************************************)
(* Claims about the inventory                                              *)
(***************************************************************************)
PositiveAtRest ==
    \A i \in 1..Len(tracker.leftovers) : tracker.leftovers[i].width > 0

\* The step was use_leftover(tracker.leftovers[last'.b], last'.a).
UseStep == last'.op = "use" /\ nuses' = nuses + 1

\* C5: after any sequence of add, find and use calls every leftover held has
\* width > 0, and a use that brings a leftover's width to 0 or below leaves
\* the list one shorter in that same step.
C5_PositiveWidth ==
    /\ []PositiveAtRest
    /\ [][(UseStep /\ tracker.leftovers[last'.b].width - last'.a <= 0)
            => Len(tracker'.leftovers) = Len(tracker.leftovers) - 1]_vars

\* A use has just exhausted and removed a leftover while another one stays.
C5_Witness ==
    /\ last.op = "use"
    /\ Len(tracker.leftovers) < tracker.stats.leftovers_created
    /\ Len(tracker.leftovers) >= 1

CompatibleAt(needed_width, needed_length, needed_thickness) ==
    {i \in 1..Len(tracker.leftovers) :
       /\ tracker.leftovers[i].length >= needed_length
       /\ tracker.leftovers[i].thickness = needed_thickness
       /\ tracker.leftovers[i].width >= needed_width}

\* C6: find_compatible_leftover returns the earliest-inserted leftover with
\* length >= needed_length, thickness = needed_thickness and
\* width >= needed_width, and None exactly when no leftover has all three.
C6_FirstFit ==
    last.op = "find" =>
        LET ok == CompatibleAt(last.a, last.b, last.c)
        IN  IF ok = {} THEN last.res = 0
            ELSE /\ last.res \in ok
                 /\ \A j \in ok : born[last.res] <= born[j]

\* A find returned a leftover although a later one fits more tightly.
C6_Witness ==
    /\ last.op = "find"
    /\ last.res # 0
    /\ \E j \in CompatibleAt(last.a, last.b, last.c) :
          /\ j > last.res
          /\ tracker.leftovers[j].width < tracker.leftovers[last.res].width

MaxRooms == 2

RoomRectA == <<Pt(0, 0), Pt(2400, 0), Pt(2400, 3000), Pt(0, 3000)>>
RoomRectB == <<Pt(3000, 0), Pt(4150, 0), Pt(4150, 3000), Pt(3000, 3000)>>
RoomRectC == <<Pt(0, 4000), Pt(400, 4000), Pt(400, 7000), Pt(0, 7000)>>
\* L-shaped rooms, the notch at each of two opposite corners
RoomLNotchMin == <<Pt(1500, 0), Pt(3000, 0), Pt(3000, 3000), Pt(0, 3000),
                   Pt(0, 1500), Pt(1500, 1500)>>
RoomLNotchMax == <<Pt(0, 0), Pt(3000, 0), Pt(3000, 1200), Pt(1200, 1200),
                   Pt(1200, 3000), Pt(0, 3000)>>
\* an L whose notch is less than a fifth of its bounding box
RoomLSmall == <<Pt(500, 0), Pt(3000, 0), Pt(3000, 3000), Pt(0, 3000),
                Pt(0, 500), Pt(500, 500)>>
RoomTrapezoid == <<Pt(0, 0), Pt(3000, 0), Pt(1000, 2000), Pt(0, 2000)>>
\* a right triangle, its hypotenuse through the centre of the bounding box
RoomWedge == <<Pt(0, 0), Pt(1000, 0), Pt(1000, 2000)>>

Rectilinear(points) ==
    \A i \in 1..Len(points) :
        LET j == (i % Len(points)) + 1
        IN  points[i].x = points[j].x \/ points[i].y = points[j].y

RoomShapes == {RoomRectA, RoomRectB, RoomRectC, RoomLNotchMin, RoomLNotchMax,
               RoomLSmall, RoomTrapezoid, RoomWedge}

\* The floor analysis takes a square root of every edge; the rooms offered
\* to the floor service have axis-parallel edges only, whose length is exact.
FloorRoomShapes == {sh \in RoomShapes : Rectilinear(sh)}

ShapeSeqs(shapes) == UNION {[1..n -> shapes] : n \in 1..MaxRooms}

PanelWidths  == {1150, 1200}
PanelLengths == {0, 2000}        \* 0: panel_length = 'auto'
Orientations == {"vertical", "horizontal"}
ClockTicks   == {0, 1}

CEILING_THICKNESS == 150
FLOOR_THICKNESS   == 20

Opt(prm) ==
    [max_panel_width |-> prm.panel_width,
     auto            |-> prm.panel_length = 0,
     panel_length    |-> prm.panel_length,
     thickness       |-> IF prm.service = "ceiling" THEN CEILING_THICKNESS
                         ELSE FLOOR_THICKNESS,
     tick            |-> prm.tick]

NoInventory ==
    /\ born = <<>>
    /\ nadds = 0
    /\ nuses = 0
    /\ last = NoOp

InitGeneration ==
    /\ \E service \in {"ceiling", "floor"} :
         /\ \E shapes \in ShapeSeqs(IF service = "ceiling" THEN RoomShapes
                                    ELSE FloorRoomShapes) :
               project = [k \in 1..Len(shapes) |-> [id |-> k, points |-> shapes[k]]]
         /\ \E o \in Orientations, w \in PanelWidths, l \in PanelLengths,
               t \in ClockTicks :
               params = [service |-> service, orientation |-> o, panel_width |-> w,
                         panel_length |-> l, tick |-> t]
    /\ phase = "generate"
    /\ cursor = 0
    /\ all_panels = <<>>
    /\ roomlog = <<>>
    /\ analysis = <<>>
    /\ regions = <<>>
    /\ tracker = NewTracker
    /\ clock = 0
    /\ NoInventory
    /\ NoPersistence

\* panel['room_id'] = room_id
WithRoom(panels, room_id) ==
    [k \in 1..Len(panels) |-> panels[k] @@ [room_id |-> room_id]]

\* One iteration of the loop of _generate_enhanced_room_panels.
CeilingRoom ==
    /\ params.service = "ceiling"
    /\ phase = "generate"
    /\ cursor < Len(project)
    /\ LET room == project[cursor + 1]
           st == [panels |-> <<>>, trk |-> tracker, tracked |-> TRUE, clock |-> clock,
                  panel_id |-> 1, failed |-> FALSE]
           r == generate_advanced_panels(st, room.points, params.orientation,
                                         Opt(params))
       IN  /\ all_panels' = all_panels \o WithRoom(r.panels, room.id)
           /\ tracker' = r.trk
           /\ clock' = r.clock
           /\ roomlog' = Append(roomlog, [room_id |-> room.id, failed |-> r.failed,
                                          skipped |-> FALSE])
    /\ cursor' = cursor + 1
    /\ UNCHANGED <<project, params, phase, invVars, dbVars, analysis,
                   regions>>

\* list.sort(key=area, reverse=True): stable, larger areas first.
RECURSIVE InsertByArea(_, _)
InsertByArea(sorted, panel) ==
    IF sorted = <<>> THEN <<panel>>
    ELSE IF sorted[Len(sorted)].area >= panel.area THEN Append(sorted, panel)
         ELSE Append(InsertByArea(SubSeq(sorted, 1, Len(sorted) - 1), panel),
                     sorted[Len(sorted)])

RECURSIVE SortByArea(_, _, _)
SortByArea(panels, i, sorted) ==
    IF i > Len(panels) THEN sorted
    ELSE SortByArea(panels, i + 1, InsertByArea(sorted, panels[i]))

\* _optimize_panel_placement
optimize_panel_placement(panels) == SortByArea(panels, 1, <<>>)

\* The tail of _generate_enhanced_panels_for_strategy.
CeilingFinish ==
    /\ params.service = "ceiling"
    /\ phase = "generate"
    /\ cursor = Len(project)
    /\ all_panels' = optimize_panel_placement(all_panels)
    /\ phase' = "done"
    /\ UNCHANGED <<project, params, cursor, roomlog, tracker, clock, invVars, dbVars, analysis,
                   regions>>

\* Sum of the edge lengths of a polygon with axis-parallel edges.
RECURSIVE Perimeter(_, _)
Perimeter(points, i) ==
    IF i > Len(points) THEN 0
    ELSE LET j == (i % Len(points)) + 1
         IN  Abs(points[j].x - points[i].x) + Abs(points[j].y - points[i].y)
             + Perimeter(points, i + 1)

\* _calculate_room_floor_area(room, wall_thickness) > 0
FloorAreaPositive(points, wall_thickness) ==
    PolygonArea2(points) > 2 * Perimeter(points, 1) * wall_thickness

\* analyze_floor_orientation_strategies returns strategies: some room has a
\* floor area, and no such room is without a floor bounding box (min() of
\* its empty strategy list raises).
FloorStrategiesFound ==
    /\ \E k \in 1..Len(project) :
          FloorAreaPositive(project[k].points, DEFAULT_WALL_THICKNESS)
    /\ \A k \in 1..Len(project) :
          FloorAreaPositive(project[k].points, DEFAULT_WALL_THICKNESS)
          => calculate_room_floor_bounding_box(project[k].points,
                                               DEFAULT_WALL_THICKNESS) # <<>>

\* generate_floor_plan returns the error of the analysis.
FloorNoStrategies ==
    /\ params.service = "floor"
    /\ phase = "generate"
    /\ ~FloorStrategiesFound
    /\ phase' = "error"
    /\ UNCHANGED <<project, params, cursor, all_panels, roomlog, tracker, clock,
                   invVars, dbVars, analysis,
                   regions>>

\* One iteration of the room loop of generate_floor_plan, up to
\* all_floor_panels.extend(room_panels).
FloorRoom ==
    /\ params.service = "floor"
    /\ phase = "generate"
    /\ FloorStrategiesFound
    /\ cursor < Len(project)
    /\ LET room == project[cursor + 1]
           bounding_box == calculate_room_floor_bounding_box(room.points,
                                                             DEFAULT_WALL_THICKNESS)
           st == [panels |-> <<>>, trk |-> tracker, tracked |-> TRUE, clock |-> clock,
                  panel_id |-> 1, failed |-> FALSE]
           r == generate_floor_panels(st, bounding_box[1], room.points,
                                      params.orientation, Opt(params))
       IN  IF bounding_box = <<>>
           THEN /\ roomlog' = Append(roomlog, [room_id |-> room.id, failed |-> FALSE,
                                               skipped |-> TRUE])
                /\ UNCHANGED <<all_panels, tracker, clock>>
           ELSE /\ all_panels' = all_panels \o WithRoom(r.panels, room.id)
                /\ tracker' = r.trk
                /\ clock' = r.clock
                /\ roomlog' = Append(roomlog, [room_id |-> room.id, failed |-> FALSE,
                                               skipped |-> FALSE])
    /\ cursor' = cursor + 1
    /\ UNCHANGED <<project, params, phase, invVars, dbVars, analysis,
                   regions>>

\* leftover_stats = project_leftover_tracker.get_stats() after the room loop
FloorFinish ==
    /\ params.service = "floor"
    /\ phase = "generate"
    /\ FloorStrategiesFound
    /\ cursor = Len(project)
    /\ phase' = "done"
    /\ UNCHANGED <<project, params, cursor, all_panels, roomlog, tracker, clock,
                   invVars, dbVars, analysis,
                   regions>>

NextGeneration ==
    \/ CeilingRoom
    \/ CeilingFinish
    \/ FloorNoStrategies
    \/ FloorRoom
    \/ FloorFinish

SpecGeneration == InitGeneration /\ [][NextGeneration]_vars

(***************************************************************************)
(* Claims about a generation pass                                          *)
(***************************************************************************)
\* The panels of all_panels emitted for one room.
PanelsOf(room_id) == {k \in 1..Len(all_panels) : all_panels[k].room_id = room_id}

\* The emitted panel says it was taken from a leftover.
TakenFromLeftover(panel) == panel.cut_notes.note = "From leftover"

\* C4: at the end of a generation pass, leftovers_created equals the number
\* of emitted panels that are cut and were not taken from a leftover.
C4_LeftoversCreated ==
    phase = "done" =>
        tracker.stats.leftovers_created =
            Cardinality({k \in 1..Len(all_panels) :
                            all_panels[k].is_cut /\ ~TakenFromLeftover(all_panels[k])})

RECURSIVE SumArea(_)
SumArea(ks) ==
    IF ks = {} THEN 0
    ELSE LET k == CHOOSE j \in ks : TRUE
         IN  all_panels[k].width * all_panels[k].length + SumArea(ks \ {k})

\* C8: when a ceiling pass is over, the areas of the panels emitted for a
\* room add up to at least the area of the room polygon, in either
\* orientation.
C8_Coverage ==
    (params.service = "ceiling" /\ phase = "done") =>
        \A r \in 1..Len(project) :
            2 * SumArea(PanelsOf(project[r].id)) >= PolygonArea2(project[r].points)

\* Width of the intersection of the intervals [a1, a2] and [b1, b2].
Overlap(a1, a2, b1, b2) == Min2(a2, b2) - Max2(a1, b1)

\* C9: two panels emitted for the same room never overlap by more than 1 mm
\* in both directions, whether they come from the same region of the room or
\* from different ones.
C9_NoOverlap ==
    \A j, k \in 1..Len(all_panels) :
        (j # k /\ all_panels[j].room_id = all_panels[k].room_id) =>
            ~(/\ Overlap(all_panels[j].start_x, all_panels[j].end_x,
                         all_panels[k].start_x, all_panels[k].end_x) > 1
              /\ Overlap(all_panels[j].start_y, all_panels[j].end_y,
                         all_panels[k].start_y, all_panels[k].end_y) > 1)

\* A finished ceiling pass whose panels for one room come from two regions.
C9_Witness ==
    /\ params.service = "ceiling"
    /\ phase = "done"
    /\ \E j, k \in 1..Len(all_panels) :
          /\ all_panels[j].room_id = all_panels[k].room_id
          /\ all_panels[j].region_type # all_panels[k].region_type

\* The extent of a panel across the direction of its stripe.
CrossStripe(panel) ==
    IF params.orientation = "horizontal" THEN panel.length ELSE panel.width

\* C10: whatever the request, no emitted panel is wider across its stripe
\* than the stock width of 1150 mm.
C10_MaxWidth ==
    \A k \in 1..Len(all_panels) : CrossStripe(all_panels[k]) <= MAX_PANEL_WIDTH

(***************************************************************************)
(* Persistence.  Each request handler runs one generation pass and writes  *)
(* its panels room by room, one database statement at a time; every        *)
(* statement is committed when it returns (no transaction is opened) and   *)
(* may raise a storage error instead.  Nothing keeps two handlers from     *)
(* serving the same project at once.  The passes of one behaviour go to    *)
(* one service, params.service; the statistics kept on the plan rows are   *)
(* left out.                                                               *)
(***************************************************************************)
MaxPasses == 3
MaxFaults == 1
MaxStoredRooms == 2

\* Two handlers at once
MaxHandlers == 2
ConcurrentPasses == 2
ConcurrentFaults == 1

Handlers == DOMAIN workers

StoredShapes(service) ==
    IF service = "ceiling" THEN {RoomRectB, RoomWedge} ELSE {RoomRectB, RoomRectC}

StoredWidths  == {1150}
StoredLengths == {0}
StoredTicks   == {1}

\* The one element of a singleton: Only({F(x) : x \in {e}}) is F(e) with e
\* worked out once.
Only(S) == CHOOSE x \in S : TRUE

\* _generate_enhanced_room_panels: the room loop with the tracker of the pass
RECURSIVE generate_enhanced_room_panels(_, _, _, _)
generate_enhanced_room_panels(rooms, prm, i, acc) ==
    IF i > Len(rooms) THEN acc.panels
    ELSE LET st == [panels |-> <<>>, trk |-> acc.trk, tracked |-> TRUE,
                    clock |-> acc.clock, panel_id |-> 1, failed |-> FALSE]
         IN  Only({generate_enhanced_room_panels(
                       rooms, prm, i + 1,
                       [panels |-> acc.panels \o WithRoom(r.panels, rooms[i].id),
                        trk |-> r.trk, clock |-> r.clock]) :
                   r \in {generate_advanced_panels(st, rooms[i].points,
                                                   prm.orientation, Opt(prm))}})

\* _generate_enhanced_panels_for_strategy: the enhanced_panels of a pass
generate_enhanced_panels_for_strategy(rooms, prm) ==
    Only({optimize_panel_placement(panels) :
          panels \in {generate_enhanced_room_panels(
                          rooms, prm, 1,
                          [panels |-> <<>>, trk |-> NewTracker, clock |-> 0])}})

\* Mutant of the room loop of generate_floor_plan: a room without a floor
\* bounding box ends the loop.
RECURSIVE generate_floor_room_panels_break(_, _, _, _)
generate_floor_room_panels_break(rooms, prm, i, acc) ==
    IF i > Len(rooms) THEN acc.panels
    ELSE LET bounding_box == calculate_room_floor_bounding_box(
                                 rooms[i].points, DEFAULT_WALL_THICKNESS)
             st == [panels |-> <<>>, trk |-> acc.trk, tracked |-> TRUE,
                    clock |-> acc.clock, panel_id |-> 1, failed |-> FALSE]
         IN  IF bounding_box = <<>>
             THEN acc.panels
             ELSE Only({generate_floor_room_panels_break(
                            rooms, prm, i + 1,
                            [panels |-> acc.panels \o WithRoom(r.panels, rooms[i].id),
                             trk |-> r.trk, clock |-> r.clock]) :
                        r \in {generate_floor_panels(st, bounding_box[1],
                                                     rooms[i].points,
                                                     prm.orientation, Opt(prm))}})

\* generate_floor_plan: the room_panels of the rooms in turn
RECURSIVE generate_floor_room_panels(_, _, _, _)
generate_floor_room_panels(rooms, prm, i, acc) ==
    IF i > Len(rooms) THEN acc.panels
    ELSE LET bounding_box == calculate_room_floor_bounding_box(
                                 rooms[i].points, DEFAULT_WALL_THICKNESS)
             st == [panels |-> <<>>, trk |-> acc.trk, tracked |-> TRUE,
                    clock |-> acc.clock, panel_id |-> 1, failed |-> FALSE]
         IN  IF bounding_box = <<>>
             THEN generate_floor_room_panels(rooms, prm, i + 1, acc)
             ELSE Only({generate_floor_room_panels(
                            rooms, prm, i + 1,
                            [panels |-> acc.panels \o WithRoom(r.panels, rooms[i].id),
                             trk |-> r.trk, clock |-> r.clock]) :
                        r \in {generate_floor_panels(st, bounding_box[1],
                                                     rooms[i].points,
                                                     prm.orientation, Opt(prm))}})

\* The rooms generate_floor_plan writes: those with a floor bounding box.
FloorRoomIds(rooms) ==
    LET HasBox(room) == calculate_room_floor_bounding_box(
                            room.points, DEFAULT_WALL_THICKNESS) # <<>>
        kept == SelectSeq(rooms, HasBox)
    IN  [k \in 1..Len(kept) |-> kept[k].id]

\* The keys of room_panels in _create_enhanced_ceiling_plans, in the order
\* the dict receives them: only rooms that have a panel appear.
RECURSIVE RoomOrder(_, _, _)
RoomOrder(panels, i, seen) ==
    IF i > Len(panels) THEN seen
    ELSE RoomOrder(panels, i + 1,
                   IF \E j \in 1..Len(seen) : seen[j] = panels[i].room_id THEN seen
                   ELSE Append(seen, panels[i].room_id))

NoParams == [service |-> "", orientation |-> "", panel_width |-> 0,
             panel_length |-> 0, tick |-> 0]

Idle == [pc |-> "idle", pass |-> 0, prm |-> NoParams, panels |-> <<>>,
         rooms |-> <<>>, r |-> 0, k |-> 0,
         faulted |-> FALSE, overlapped |-> FALSE, before |-> <<>>]

\* CeilingPanel.objects.create / FloorPanel.objects.create: the stored row;
\* pass tells which pass wrote it.
Row(pass, panel) ==
    [pass |-> pass, panel_id |-> panel.panel_id,
     start_x |-> panel.start_x, start_y |-> panel.start_y,
     end_x |-> panel.end_x, end_y |-> panel.end_y,
     width |-> panel.width, length |-> panel.length,
     is_cut_panel |-> panel.is_cut, cut_notes |-> panel.cut_notes]

InitStore(handlers) ==
    /\ \E service \in {"ceiling", "floor"} :
         /\ params = [service |-> service]
         /\ \E n \in 1..MaxStoredRooms :
              \E shapes \in [1..n -> StoredShapes(service)] :
                 project = [k \in 1..n |-> [id |-> k, points |-> shapes[k]]]
    /\ phase = "none"
    /\ cursor = 0
    /\ all_panels = <<>>
    /\ roomlog = <<>>
    /\ analysis = <<>>
    /\ regions = <<>>
    /\ tracker = NewTracker
    /\ clock = 0
    /\ NoInventory
    /\ table = [k \in 1..Len(project) |-> {}]
    /\ plans = {}
    /\ workers = [h \in 1..handlers |-> Idle]
    /\ npass = 0
    /\ nfaults = 0
    /\ lastdone = [pass |-> 0, prm |-> NoParams, clean |-> TRUE]

\* The handler has taken a request and not yet answered it.
InFlight(h) == workers[h].pc # "idle"

\* A request arrives at a free handler: the pass is generated and the
\* handler stands before its first database statement.
Request(h, passes) ==
    /\ workers[h].pc = "idle"
    /\ npass < passes
    /\ \E o \in Orientations, w \in StoredWidths, l \in StoredLengths,
          t \in StoredTicks :
         LET prm == [service |-> params.service, orientation |-> o,
                     panel_width |-> w, panel_length |-> l, tick |-> t]
             start == [panels |-> <<>>, trk |-> NewTracker, clock |-> 0]
             found == params.service = "ceiling" \/ FloorStrategiesFound
             generated == IF params.service = "ceiling"
                          THEN generate_enhanced_panels_for_strategy(project, prm)
                          ELSE IF found
                               THEN generate_floor_room_panels(project, prm, 1, start)
                               ELSE <<>>
             busy == \E g \in Handlers : g # h /\ InFlight(g)
         IN  \E panels \in {generated} :
               \E rooms \in {IF params.service = "ceiling"
                              THEN RoomOrder(panels, 1, <<>>)
                              ELSE IF found THEN FloorRoomIds(project) ELSE <<>>} :
                 workers' = [g \in Handlers |->
                               IF g = h
                               THEN [pc |-> IF rooms = <<>> THEN "done" ELSE "plan",
                                     pass |-> npass + 1, prm |-> prm,
                                     panels |-> panels, rooms |-> rooms,
                                     r |-> 1, k |-> 1, faulted |-> FALSE,
                                     overlapped |-> busy, before |-> table]
                               ELSE IF InFlight(g)
                                    THEN [workers[g] EXCEPT !.overlapped = TRUE]
                                    ELSE workers[g]]
    /\ npass' = npass + 1
    /\ UNCHANGED <<table, plans, nfaults, lastdone, tracker, clock, invVars, genVars>>

\* The room the handler is writing, and the panels of its pass for it.
RoomAt(w) == w.rooms[w.r]

RoomPanels(w) ==
    LET InRoom(panel) == panel.room_id = RoomAt(w)
    IN  SelectSeq(w.panels, InRoom)

\* On to the next key of room_panels, or out of the loop.
NextRoom(w) ==
    IF w.r < Len(w.rooms) THEN [w EXCEPT !.pc = "plan", !.r = @ + 1, !.k = 1]
    ELSE [w EXCEPT !.pc = "done"]

\* A statement outside the per-panel try raised: the ceiling loop goes on
\* with the next room (except Exception: continue), generate_floor_plan
\* returns its error.
Raised(w) ==
    IF w.prm.service = "ceiling" THEN NextRoom([w EXCEPT !.faulted = TRUE])
    ELSE [w EXCEPT !.faulted = TRUE, !.pc = "done"]

Faults(faults) == IF nfaults < faults THEN BOOLEAN ELSE {FALSE}

\* CeilingPlan / FloorPlan .objects.get_or_create(room=room, ...) and save()
PlanWrite(h, faults) ==
    /\ workers[h].pc = "plan"
    /\ \E fail \in Faults(faults) :
         IF fail
         THEN /\ workers' = [workers EXCEPT ![h] = Raised(@)]
              /\ nfaults' = nfaults + 1
              /\ UNCHANGED plans
         ELSE /\ workers' = [workers EXCEPT ![h].pc = "delete"]
              /\ plans' = plans \cup {RoomAt(workers[h])}
              /\ UNCHANGED nfaults
    /\ UNCHANGED <<table, npass, lastdone, tracker, clock, invVars, genVars>>

\* CeilingPanel / FloorPanel .objects.filter(room=room).delete()
DeletePanels(h, faults) ==
    /\ workers[h].pc = "delete"
    /\ \E fail \in Faults(faults) :
         IF fail
         THEN /\ workers' = [workers EXCEPT ![h] = Raised(@)]
              /\ nfaults' = nfaults + 1
              /\ UNCHANGED table
         ELSE /\ table' = [table EXCEPT ![RoomAt(workers[h])] = {}]
              /\ workers' = [workers EXCEPT ![h] =
                                IF RoomPanels(@) = <<>> THEN NextRoom(@)
                                ELSE [@ EXCEPT !.pc = "create", !.k = 1]]
              /\ UNCHANGED nfaults
    /\ UNCHANGED <<plans, npass, lastdone, tracker, clock, invVars, genVars>>

\* After the k-th panel of the room: the next panel or the next room.
NextPanel(w) ==
    IF w.k < Len(RoomPanels(w)) THEN [w EXCEPT !.k = @ + 1] ELSE NextRoom(w)

\* CeilingPanel / FloorPanel .objects.create(room=room, ...).  The floor
\* loop wraps each create in try/except: continue; the ceiling loop does
\* not, so an error leaves the room's loop.
CreatePanel(h, faults) ==
    /\ workers[h].pc = "create"
    /\ \E fail \in Faults(faults) :
         IF fail
         THEN /\ workers' = [workers EXCEPT ![h] =
                                IF @.prm.service = "ceiling" THEN Raised(@)
                                ELSE NextPanel([@ EXCEPT !.faulted = TRUE])]
              /\ nfaults' = nfaults + 1
              /\ UNCHANGED table
         ELSE /\ table' = [table EXCEPT ![RoomAt(workers[h])] =
                              @ \cup {Row(workers[h].pass,
                                          RoomPanels(workers[h])[workers[h].k])}]
              /\ workers' = [workers EXCEPT ![h] = NextPanel(@)]
              /\ UNCHANGED nfaults
    /\ UNCHANGED <<plans, npass, lastdone, tracker, clock, invVars, genVars>>

\* The handler returns its response.
Respond(h) ==
    /\ workers[h].pc = "done"
    /\ lastdone' = [pass |-> workers[h].pass, prm |-> workers[h].prm,
                    clean |-> /\ lastdone.clean
                              /\ ~workers[h].faulted
                              /\ ~workers[h].overlapped]
    /\ workers' = [workers EXCEPT ![h] = Idle]
    /\ UNCHANGED <<table, plans, npass, nfaults, tracker, clock, invVars, genVars>>

\* One handler serves the project: the passes follow one another.
InitPersistence == InitStore(1)

NextPersistence ==
    \/ \E h \in Handlers : Request(h, MaxPasses)
    \/ \E h \in Handlers : PlanWrite(h, MaxFaults)
    \/ \E h \in Handlers : DeletePanels(h, MaxFaults)
    \/ \E h \in Handlers : CreatePanel(h, MaxFaults)
    \/ \E h \in Handlers : Respond(h)

SpecPersistence == InitPersistence /\ [][NextPersistence]_vars

\* Several handlers serve the project.
InitConcurrent == InitStore(MaxHandlers)

NextConcurrent ==
    \/ \E h \in Handlers : Request(h, ConcurrentPasses)
    \/ \E h \in Handlers : PlanWrite(h, ConcurrentFaults)
    \/ \E h \in Handlers : DeletePanels(h, ConcurrentFaults)
    \/ \E h \in Handlers : CreatePanel(h, ConcurrentFaults)
    \/ \E h \in Handlers : Respond(h)

SpecConcurrent == InitConcurrent /\ [][NextConcurrent]_vars

(***************************************************************************)
(* Claims about persistence                                                *)
(***************************************************************************)
\* The rows the pass of handler record w is to store for a room.
RowsFor(w, room_id) ==
    {Row(w.pass, w.panels[k]) :
        k \in {j \in 1..Len(w.panels) : w.panels[j].room_id = room_id}}

\* C1: when a pass that repeats the parameters of the pass before it has
\* made its writes (no storage error, no other pass at work, now or
\* earlier), every room of the project holds exactly the panels this pass
\* emitted for it, and so no panel of an earlier pass.
C1_ReplaceNotDuplicate ==
    \A h \in Handlers :
        (/\ workers[h].pc = "done"
         /\ ~workers[h].faulted
         /\ ~workers[h].overlapped
         /\ lastdone.pass > 0
         /\ lastdone.clean
         /\ lastdone.prm = workers[h].prm)
        => \A r \in 1..Len(project) :
              table[project[r].id] = RowsFor(workers[h], project[r].id)

\* The handler is between its first and its last database statement.
Writing(h) == workers[h].pc \in {"plan", "delete", "create"}

\* C2: at most one pass is in flight for the project, so the deletes and
\* inserts of two passes never interleave.
C2_OnePassInFlight == Cardinality({h \in Handlers : Writing(h)}) <= 1

\* C3: a pass that met a storage error leaves every room with the panels
\* it had before the pass.
C3_Rollback ==
    \A h \in Handlers :
        (/\ workers[h].pc = "done"
         /\ workers[h].faulted
         /\ ~workers[h].overlapped)
        => table = workers[h].before

(***************************************************************************)
(* The stripe tiler on its own: one rectangle, one orientation, one length *)
(* mode, with the fresh tracker of a pass.                                 *)
(***************************************************************************)
TilerOrigins == {0, 300}
TilerWidths  == {400, 1150, 2500}
TilerHeights == {700, 1150, 3000}
TilerLengths == {0, 1000, 2000}      \* 0: panel_length = 'auto'
TilerPanelWidths == {850, MAX_PANEL_WIDTH}

\* The rectangle handed to the tiler, as the room whose bounding box it is.
RectRoom(x, y, w, h) == <<Pt(x, y), Pt(x + w, y), Pt(x + w, y + h), Pt(x, y + h)>>

InitTiler ==
    /\ \E x \in TilerOrigins, w \in TilerWidths, h \in TilerHeights :
          project = <<[id |-> 1, points |-> RectRoom(x, x, w, h)]>>
    /\ \E service \in {"ceiling", "floor"}, o \in Orientations, l \in TilerLengths,
          pw \in TilerPanelWidths :
          params = [service |-> service, orientation |-> o,
                    panel_width |-> pw, panel_length |-> l, tick |-> 1]
    /\ phase = "tile"
    /\ cursor = 0
    /\ all_panels = <<>>
    /\ roomlog = <<>>
    /\ analysis = <<>>
    /\ regions = <<>>
    /\ tracker = NewTracker
    /\ clock = 0
    /\ NoInventory
    /\ NoPersistence

\* The rectangle R of the run.
TilerRegion ==
    [calculate_room_bounding_box(project[1].points) EXCEPT !.type = "rectangular"]

TilerStart ==
    [panels |-> <<>>, trk |-> tracker, tracked |-> TRUE, clock |-> clock,
     panel_id |-> 1, failed |-> FALSE]

\* _generate_panels_for_region(region, orientation, ...)
TileCeilingRegion ==
    /\ phase = "tile"
    /\ params.service = "ceiling"
    /\ LET r == generate_panels_for_region(TilerStart, TilerRegion,
                                           params.orientation, Opt(params))
       IN  /\ all_panels' = WithRoom(r.panels, 1)
           /\ tracker' = r.trk
           /\ clock' = r.clock
    /\ phase' = "tiled"
    /\ UNCHANGED <<project, params, cursor, roomlog, invVars, dbVars, analysis,
                   regions>>

\* _generate_standard_floor_panels(bounding_box, orientation, ...)
TileFloorRegion ==
    /\ phase = "tile"
    /\ params.service = "floor"
    /\ LET r == generate_standard_floor_panels(TilerStart, TilerRegion,
                                               params.orientation, Opt(params))
       IN  /\ all_panels' = WithRoom(r.panels, 1)
           /\ tracker' = r.trk
           /\ clock' = r.clock
    /\ phase' = "tiled"
    /\ UNCHANGED <<project, params, cursor, roomlog, invVars, dbVars, analysis,
                   regions>>

NextTiler ==
    \/ TileCeilingRegion
    \/ TileFloorRegion

SpecTiler == InitTiler /\ [][NextTiler]_vars

(***************************************************************************)
(* Claims about the stripe tiler                                           *)
(***************************************************************************)
\* C11: the panels the stripe tiler emits for a rectangle R lie inside R, no
\* two of them share any area, and their areas add up to the area of R, in
\* either orientation and either length mode: they tile R with no gap.
C11_TilesRegion ==
    phase = "tiled" =>
        /\ \A k \in 1..Len(all_panels) :
              /\ all_panels[k].start_x >= TilerRegion.min_x
              /\ all_panels[k].end_x <= TilerRegion.max_x
              /\ all_panels[k].start_y >= TilerRegion.min_y
              /\ all_panels[k].end_y <= TilerRegion.max_y
              /\ all_panels[k].end_x - all_panels[k].start_x = all_panels[k].width
              /\ all_panels[k].end_y - all_panels[k].start_y = all_panels[k].length
        /\ \A j, k \in 1..Len(all_panels) :
              j # k => ~(/\ Overlap(all_panels[j].start_x, all_panels[j].end_x,
                                    all_panels[k].start_x, all_panels[k].end_x) > 0
                        /\ Overlap(all_panels[j].start_y, all_panels[j].end_y,
                                    all_panels[k].start_y, all_panels[k].end_y) > 0)
        /\ SumArea(1..Len(all_panels)) = TilerRegion.width * TilerRegion.height

\* A rectangle away from the origin tiled with a custom length into several
\* stripes of several panels, the last of each clipped.
C11_Witness ==
    /\ phase = "tiled"
    /\ params.panel_length # 0
    /\ TilerRegion.min_x > 0
    /\ Len(all_panels) >= 4
    /\ \E k \in 1..Len(all_panels) :
          all_panels[k].width < MAX_PANEL_WIDTH /\ all_panels[k].length < MAX_PANEL_WIDTH

(***************************************************************************)
(* Orientation analysis.  The rooms of the project share one height, so    *)
(* the height analysis has at most one height group.  A waste percentage   *)
(* is kept as the fraction [num, den] it is 100 times of (both doubled     *)
(* where an area is a half-integer).                                       *)
(***************************************************************************)
ANALYSIS_THICKNESS == 20
MERGED_PANEL_WIDTH == 1150

\* analyze_project_heights: a room is taken into its height group when it
\* has at least 3 points and an area above 0.
ValidRoom(room) == Len(room.points) >= 3 /\ PolygonArea2(room.points) > 0

\* height_groups[height]['rooms'], for the one height of the project
height_group_rooms(rooms) == SelectSeq(rooms, ValidRoom)

\* sum(panel['width'] * panel['length'] for panel in panels)
RECURSIVE PanelArea(_, _)
PanelArea(panels, i) ==
    IF i > Len(panels) THEN 0
    ELSE panels[i].width * panels[i].length + PanelArea(panels, i + 1)

\* sum(room_info['area'] for room_info in rooms), doubled
RECURSIVE TotalRoomArea2(_, _)
TotalRoomArea2(rooms, i) ==
    IF i > Len(rooms) THEN 0
    ELSE PolygonArea2(rooms[i].points) + TotalRoomArea2(rooms, i + 1)

\* Twice _calculate_room_waste.
calculate_room_waste(panels, room) ==
    IF panels = <<>> THEN 0
    ELSE Max2(0, 2 * PanelArea(panels, 1) - PolygonArea2(room.points))

\* (x / total * 100) if total > 0 else 0
Percentage(num, den) == IF den > 0 THEN [num |-> num, den |-> den]
                        ELSE [num |-> 0, den |-> 1]

\* a / b <= c / d for a, c >= 0 and b, d > 0, by comparing the quotients
\* and then the remainders (the products a * d and c * b can leave the range
\* of the integers at hand).
RECURSIVE FractionLE(_, _, _, _)
FractionLE(a, b, c, d) ==
    IF a \div b # c \div d THEN a \div b < c \div d
    ELSE IF a % b = 0 THEN TRUE
         ELSE IF c % d = 0 THEN FALSE
              ELSE FractionLE(d, c % d, b, a % b)

\* a['total_waste_percentage'] <= b['total_waste_percentage']
WasteLE(a, b) == FractionLE(a.waste.num, a.waste.den, b.waste.num, b.waste.den)

\* The analysis runs the tiler with the thickness the room_info gives:
\* room_info has no 'ceiling_thickness', so .get() answers 20.0.
AnalysisOpt(prm) == [Opt(prm) EXCEPT !.thickness = ANALYSIS_THICKNESS]

\* Mutant of the start of a strategy evaluation: the evaluations go on with
\* the tracker created last instead of creating their own.
EvalStart_shared(now) ==
    [trk |-> tracker, clock |-> now, total_panels |-> 0, room_results |-> <<>>]

\* A strategy evaluation starts with its own LeftoverTracker.
EvalStart(now) ==
    [trk |-> NewTracker, clock |-> now, total_panels |-> 0, room_results |-> <<>>]

TilerState(acc) ==
    [panels |-> <<>>, trk |-> acc.trk, tracked |-> TRUE, clock |-> acc.clock,
     panel_id |-> 1, failed |-> FALSE]

\* _generate_panels_with_orientation: _generate_horizontal_panels for
\* 'vertical', _generate_vertical_panels otherwise; [] on an exception.
generate_panels_with_orientation(st, room, orientation, opt) ==
    generate_shape_aware_panels(st, calculate_room_bounding_box(room.points),
                                room.points, orientation, opt)

\* The room loop of _evaluate_group_fixed_orientation.
RECURSIVE evaluate_group_fixed_orientation(_, _, _, _, _)
evaluate_group_fixed_orientation(rooms, orientation, opt, i, acc) ==
    IF i > Len(rooms) THEN acc
    ELSE Only({evaluate_group_fixed_orientation(
                   rooms, orientation, opt, i + 1,
                   [trk |-> r.trk, clock |-> r.clock,
                    total_panels |-> acc.total_panels + Len(r.panels),
                    room_results |-> Append(acc.room_results,
                                            [room_id |-> rooms[i].id,
                                             orientation |-> orientation,
                                             panels |-> Len(r.panels)])]) :
               r \in {generate_panels_with_orientation(TilerState(acc), rooms[i],
                                                       orientation, opt)}})

\* The room loop of _evaluate_group_independent_orientation: both
\* orientations are tiled with the one tracker of the strategy.
RECURSIVE evaluate_group_independent_orientation(_, _, _, _)
evaluate_group_independent_orientation(rooms, opt, i, acc) ==
    IF i > Len(rooms) THEN acc
    ELSE Only({Only({
             LET vertical_waste == calculate_room_waste(v.panels, rooms[i])
                 horizontal_waste == calculate_room_waste(h.panels, rooms[i])
                 best_orientation == IF vertical_waste <= horizontal_waste
                                     THEN "vertical" ELSE "horizontal"
                 best_panels == IF vertical_waste <= horizontal_waste
                                THEN v.panels ELSE h.panels
             IN  evaluate_group_independent_orientation(
                     rooms, opt, i + 1,
                     [trk |-> h.trk, clock |-> h.clock,
                      total_panels |-> acc.total_panels + Len(best_panels),
                      room_results |-> Append(acc.room_results,
                                              [room_id |-> rooms[i].id,
                                               orientation |-> best_orientation,
                                               panels |-> Len(best_panels)])]) :
             h \in {generate_panels_with_orientation(
                        [TilerState(acc) EXCEPT !.trk = v.trk, !.clock = v.clock],
                        rooms[i], "horizontal", opt)}}) :
           v \in {generate_panels_with_orientation(TilerState(acc), rooms[i],
                                                   "vertical", opt)}})

\* all_points.extend(room_info['points']) over the rooms
RECURSIVE AllPoints(_, _)
AllPoints(rooms, i) ==
    IF i > Len(rooms) THEN <<>> ELSE rooms[i].points \o AllPoints(rooms, i + 1)

\* _generate_panels_for_merged_area: the merged area is tiled as one room
\* whose polygon is all the points, 1150 wide, 'auto', without a tracker.
generate_panels_for_merged_area(all_points, now) ==
    generate_shape_aware_panels(
        [panels |-> <<>>, trk |-> NewTracker, tracked |-> FALSE, clock |-> now,
         panel_id |-> 1, failed |-> FALSE],
        calculate_room_bounding_box(all_points), all_points, "vertical",
        [max_panel_width |-> MERGED_PANEL_WIDTH, auto |-> TRUE, panel_length |-> 0,
         thickness |-> ANALYSIS_THICKNESS, tick |-> 0]).panels

\* _panel_covers_room: the panel's centre is in the room's bounding box
panel_covers_room(panel, room) ==
    LET bounding_box == calculate_room_bounding_box(room.points)
    IN  /\ panel.start_x + panel.end_x >= 2 * bounding_box.min_x
        /\ panel.start_x + panel.end_x <= 2 * bounding_box.max_x
        /\ panel.start_y + panel.end_y >= 2 * bounding_box.min_y
        /\ panel.start_y + panel.end_y <= 2 * bounding_box.max_y

\* _evaluate_strategy for 'merged' (_evaluate_merged_strategy and
\* _calculate_merged_waste)
evaluate_merged_strategy(rooms, strategy_name, now) ==
    LET total_room_area == TotalRoomArea2(rooms, 1)
    IN  Only({[strategy_name    |-> strategy_name,
               orientation_type |-> "merged",
               total_panels     |-> Len(merged_panels),
               waste            |-> Percentage(
                                        Max2(0, 2 * PanelArea(merged_panels, 1)
                                                - total_room_area),
                                        total_room_area),
               total_room_area  |-> total_room_area,
               room_results     |-> [k \in 1..Len(rooms) |->
                                       [room_id |-> rooms[k].id,
                                        orientation |-> "merged",
                                        panels |-> Cardinality(
                                            {j \in 1..Len(merged_panels) :
                                               panel_covers_room(merged_panels[j],
                                                                 rooms[k])})]],
               stats            |-> EmptyStats] :
              merged_panels \in {generate_panels_for_merged_area(AllPoints(rooms, 1),
                                                                 now)}})

\* _evaluate_strategy for the per-room strategies
evaluate_room_strategy(rooms, orientation_type, strategy_name, prm, now) ==
    LET total_room_area == TotalRoomArea2(rooms, 1)
    IN  Only({[strategy_name    |-> strategy_name,
               orientation_type |-> orientation_type,
               total_panels     |-> g.total_panels,
               waste            |-> Percentage(2 * g.trk.stats.total_leftover_area,
                                               total_room_area),
               total_room_area  |-> total_room_area,
               room_results     |-> g.room_results,
               stats            |-> g.trk.stats] :
              g \in {IF orientation_type = "independent"
                     THEN evaluate_group_independent_orientation(
                              rooms, AnalysisOpt(prm), 1, EvalStart(now))
                     ELSE evaluate_group_fixed_orientation(
                              rooms, orientation_type, AnalysisOpt(prm), 1,
                              EvalStart(now))}})

\* _evaluate_strategy
evaluate_strategy(rooms, orientation_type, strategy_name, prm, now) ==
    IF orientation_type = "merged"
    THEN evaluate_merged_strategy(rooms, strategy_name, now)
    ELSE evaluate_room_strategy(rooms, orientation_type, strategy_name, prm, now)

\* Mutant of the sort of analyze_orientation_strategies: the strategies are
\* ranked by their number of panels.
RECURSIVE InsertByWaste_panels(_, _)
InsertByWaste_panels(sorted, strategy) ==
    IF sorted = <<>> THEN <<strategy>>
    ELSE IF sorted[Len(sorted)].total_panels <= strategy.total_panels
         THEN Append(sorted, strategy)
         ELSE Append(InsertByWaste_panels(SubSeq(sorted, 1, Len(sorted) - 1), strategy),
                     sorted[Len(sorted)])

\* strategies.sort(key=lambda x: x['total_waste_percentage']): stable,
\* smaller percentages first.
RECURSIVE InsertByWaste(_, _)
InsertByWaste(sorted, strategy) ==
    IF sorted = <<>> THEN <<strategy>>
    ELSE IF WasteLE(sorted[Len(sorted)], strategy) THEN Append(sorted, strategy)
         ELSE Append(InsertByWaste(SubSeq(sorted, 1, Len(sorted) - 1), strategy),
                     sorted[Len(sorted)])

RECURSIVE SortByWaste(_, _, _)
SortByWaste(strategies, i, sorted) ==
    IF i > Len(strategies) THEN sorted
    ELSE SortByWaste(strategies, i + 1, InsertByWaste(sorted, strategies[i]))

\* The strategies list of analyze_orientation_strategies before the sort.
CandidateStrategies(rooms, prm, now) ==
    LET group == height_group_rooms(rooms)
    IN  <<evaluate_strategy(group, "vertical", "all_vertical", prm, now),
          evaluate_strategy(group, "horizontal", "all_horizontal", prm, now),
          evaluate_strategy(group, "independent", "room_optimal", prm, now)>>
        \o (IF group # <<>>      \* height_analysis['all_same_height']
            THEN <<evaluate_strategy(group, "merged", "project_merged", prm, now)>>
            ELSE <<>>)

NoStrategy == [strategy_name |-> "", orientation_type |-> "", total_panels |-> 0,
               waste |-> Percentage(0, 0), total_room_area |-> 0,
               room_results |-> <<>>, stats |-> EmptyStats]

\* analyze_orientation_strategies.  candidates keeps the list in the order
\* the strategies were evaluated in.
analyze_orientation_strategies(rooms, prm, now) ==
    IF rooms = <<>>
    THEN [error |-> "No rooms found in project", candidates |-> <<>>,
          strategies |-> <<>>, recommended_strategy |-> "", best |-> NoStrategy]
    ELSE Only({Only({[error |-> "", candidates |-> candidates,
                      strategies |-> strategies,
                      recommended_strategy |-> strategies[1].strategy_name,
                      best |-> strategies[1]] :
                     strategies \in {SortByWaste(candidates, 1, <<>>)}}) :
               candidates \in {CandidateStrategies(rooms, prm, now)}})

\* Twice FloorService._calculate_room_floor_area.
calculate_room_floor_area(points, wall_thickness) ==
    IF Len(points) < 3 THEN 0
    ELSE Max2(0, PolygonArea2(points) - 2 * Perimeter(points, 1) * wall_thickness)

\* _calculate_floor_waste(panels, room, wall_thickness, leftover_tracker)
calculate_floor_waste(panels, room, trk) ==
    LET floor_area == calculate_room_floor_area(room.points, DEFAULT_WALL_THICKNESS)
    IN  IF panels = <<>> THEN Percentage(1, 1)
        ELSE IF floor_area > 0
             THEN Percentage(2 * trk.stats.total_leftover_area, floor_area)
             ELSE Percentage(0, 0)

\* One entry of the strategies list of _analyze_room_floor_orientations.
FloorStrategy(strategy_name, orientation_type, room, panels, trk) ==
    [strategy_name    |-> strategy_name,
     orientation_type |-> orientation_type,
     total_panels     |-> Len(panels),
     waste            |-> calculate_floor_waste(panels, room, trk),
     total_room_area  |-> calculate_room_floor_area(room.points,
                                                    DEFAULT_WALL_THICKNESS),
     room_results     |-> <<[room_id |-> room.id, orientation |-> orientation_type,
                             panels |-> Len(panels)]>>,
     stats            |-> trk.stats]

\* _analyze_room_floor_orientations.  _generate_mixed_floor_panels tiles
\* both orientations with the one tracker it is given and keeps the
\* horizontal panels unless there are none.
analyze_room_floor_orientations(room, prm, now) ==
    LET bounding_box == calculate_room_floor_bounding_box(room.points,
                                                          DEFAULT_WALL_THICKNESS)
        st == TilerState(EvalStart(now))
    IN  IF bounding_box = <<>> THEN <<>>
        ELSE Only({Only({Only({
                 <<FloorStrategy("all_horizontal", "horizontal", room, h.panels, h.trk),
                   FloorStrategy("all_vertical", "vertical", room, v.panels, v.trk),
                   FloorStrategy("mixed_optimal", "mixed", room,
                                 IF h.panels # <<>> \/ mv.panels = <<>>
                                 THEN h.panels ELSE mv.panels,
                                 mv.trk)>> :
                 mv \in {generate_floor_panels(
                             [st EXCEPT !.trk = h.trk, !.clock = h.clock],
                             bounding_box[1], room.points, "vertical", Opt(prm))}}) :
               v \in {generate_floor_panels(st, bounding_box[1], room.points,
                                            "vertical", Opt(prm))}}) :
             h \in {generate_floor_panels(st, bounding_box[1], room.points,
                                          "horizontal", Opt(prm))}})

\* The room loop of analyze_floor_orientation_strategies; raised is TRUE
\* when min() was given the empty list of a room without bounding box.
RECURSIVE FloorStrategies(_, _, _, _, _)
FloorStrategies(rooms, prm, now, i, acc) ==
    IF i > Len(rooms) THEN acc
    ELSE IF calculate_room_floor_area(rooms[i].points, DEFAULT_WALL_THICKNESS) <= 0
         THEN FloorStrategies(rooms, prm, now, i + 1, acc)
         ELSE Only({IF room_strategies = <<>>
                    THEN [acc EXCEPT !.raised = TRUE]
                    ELSE FloorStrategies(
                             rooms, prm, now, i + 1,
                             [acc EXCEPT !.strategies = @ \o room_strategies]) :
                    room_strategies \in {analyze_room_floor_orientations(rooms[i], prm,
                                                                         now)}})

\* min(strategies, key=lambda x: x['total_waste_percentage']): the first
\* of the smallest.
RECURSIVE MinByWaste(_, _, _)
MinByWaste(strategies, i, best) ==
    IF i > Len(strategies) THEN best
    ELSE MinByWaste(strategies, i + 1,
                    IF WasteLE(best, strategies[i]) THEN best ELSE strategies[i])

NoAnalysis(error) ==
    [error |-> error, candidates |-> <<>>, strategies |-> <<>>,
     recommended_strategy |-> "", best |-> NoStrategy]

\* analyze_floor_orientation_strategies
analyze_floor_orientation_strategies(rooms, prm, now) ==
    IF rooms = <<>> THEN NoAnalysis("No rooms found for this project")
    ELSE Only({IF found.raised THEN NoAnalysis("Error analyzing floor orientations")
               ELSE IF found.strategies = <<>>
                    THEN NoAnalysis("No valid floor strategies found")
                    ELSE Only({[error |-> "", candidates |-> found.strategies,
                                strategies |-> found.strategies,
                                recommended_strategy |-> best.strategy_name,
                                best |-> best] :
                               best \in {MinByWaste(found.strategies, 2,
                                                    found.strategies[1])}}) :
               found \in {FloorStrategies(rooms, prm, now, 1,
                                          [strategies |-> <<>>, raised |-> FALSE])}})

(***************************************************************************)
(* The analysis on its own: one project, one request.                      *)
(***************************************************************************)
RoomSquare   == <<Pt(0, 0), Pt(2300, 0), Pt(2300, 2300), Pt(0, 2300)>>
\* rooms the height analysis leaves out: two points, and three in a line
RoomSegment  == <<Pt(0, 0), Pt(1000, 0)>>
RoomFlat     == <<Pt(0, 0), Pt(1000, 0), Pt(2000, 0)>>

AnalysisShapes(service) ==
    IF service = "ceiling"
    THEN RoomShapes \cup {RoomSquare, RoomSegment, RoomFlat}
    ELSE FloorRoomShapes \cup {RoomSquare, RoomSegment, RoomFlat}

InitAnalysis ==
    /\ \E service \in {"ceiling", "floor"} :
         /\ \E shapes \in ShapeSeqs(AnalysisShapes(service)) :
               project = [k \in 1..Len(shapes) |-> [id |-> k, points |-> shapes[k]]]
         /\ \E w \in PanelWidths, l \in PanelLengths :
               params = [service |-> service, orientation |-> "auto",
                         panel_width |-> w, panel_length |-> l, tick |-> 1]
    /\ phase = "analyze"
    /\ cursor = 0
    /\ all_panels = <<>>
    /\ roomlog = <<>>
    /\ analysis = <<>>
    /\ regions = <<>>
    /\ tracker = NewTracker
    /\ clock = 0
    /\ NoInventory
    /\ NoPersistence

\* CeilingService.analyze_orientation_strategies(project_id, ...)
AnalyzeCeiling ==
    /\ phase = "analyze"
    /\ params.service = "ceiling"
    /\ analysis' = analyze_orientation_strategies(project, params, clock)
    /\ phase' = "analyzed"
    /\ UNCHANGED <<project, params, cursor, all_panels, roomlog, regions, tracker,
                   clock, invVars, dbVars>>

\* FloorService.analyze_floor_orientation_strategies(project_id, ...)
AnalyzeFloor ==
    /\ phase = "analyze"
    /\ params.service = "floor"
    /\ analysis' = analyze_floor_orientation_strategies(project, params, clock)
    /\ phase' = "analyzed"
    /\ UNCHANGED <<project, params, cursor, all_panels, roomlog, regions, tracker,
                   clock, invVars, dbVars>>

NextAnalysis ==
    \/ AnalyzeCeiling
    \/ AnalyzeFloor

SpecAnalysis == InitAnalysis /\ [][NextAnalysis]_vars

(***************************************************************************)
(* Claims about the analysis                                               *)
(***************************************************************************)
\* C12: the strategy an orientation analysis reports as recommended has the
\* smallest waste percentage of all the strategies it evaluated.
C12_MinimumWaste ==
    (phase = "analyzed" /\ analysis.error = "") =>
        /\ analysis.best.strategy_name = analysis.recommended_strategy
        /\ \E k \in 1..Len(analysis.candidates) : analysis.candidates[k] = analysis.best
        /\ \A k \in 1..Len(analysis.candidates) :
              WasteLE(analysis.best, analysis.candidates[k])

\* An analysis whose recommended strategy was not evaluated first and is
\* strictly better than another one.
C12_Witness ==
    /\ phase = "analyzed"
    /\ analysis.error = ""
    /\ analysis.candidates[1] # analysis.best
    /\ ~WasteLE(analysis.candidates[1], analysis.best)
    /\ params.service = "ceiling"

\* The place of a strategy in the order all_horizontal, all_vertical,
\* room_optimal, project_merged.
StrategyOrder(strategy_name) ==
    CASE strategy_name = "all_horizontal" -> 1
      [] strategy_name = "all_vertical"   -> 2
      [] strategy_name = "room_optimal"   -> 3
      [] strategy_name = "project_merged" -> 4
      [] OTHER -> 5

\* C13: of the ceiling strategies with the smallest waste percentage the
\* one with the fewest panels is recommended, and of those with as few
\* panels the first in the order all_horizontal, all_vertical, room_optimal,
\* project_merged.
C13_TieBreak ==
    (phase = "analyzed" /\ params.service = "ceiling" /\ analysis.error = "") =>
        \A k \in 1..Len(analysis.candidates) :
            LET other == analysis.candidates[k]
            IN  (WasteLE(other, analysis.best) /\ WasteLE(analysis.best, other)) =>
                    \/ analysis.best.total_panels < other.total_panels
                    \/ /\ analysis.best.total_panels = other.total_panels
                       /\ StrategyOrder(analysis.best.strategy_name)
                            <= StrategyOrder(other.strategy_name)

(***************************************************************************)
(* Claims about reruns of a generation pass                                *)
(***************************************************************************)
\* The panels of a whole pass over the project, as one request gives them.
PassPanels(prm) ==
    IF prm.service = "ceiling"
    THEN generate_enhanced_panels_for_strategy(project, prm)
    ELSE generate_floor_room_panels(project, prm, 1,
                                    [panels |-> <<>>, trk |-> NewTracker, clock |-> 0])

\* What two panel lists are compared in.
Compared(panels) ==
    [k \in 1..Len(panels) |->
        [room_id |-> panels[k].room_id, panel_id |-> panels[k].panel_id,
         start_x |-> panels[k].start_x, start_y |-> panels[k].start_y,
         end_x |-> panels[k].end_x, end_y |-> panels[k].end_y,
         is_cut |-> panels[k].is_cut,
         from_leftover |-> TakenFromLeftover(panels[k])]]

C15_IncreasingIds ==
    phase = "generate" =>
        /\ \A k \in 1..Len(all_panels) :
              all_panels[k].panel_id.prefix =
                  (IF params.service = "ceiling" THEN "CP" ELSE "FP")
        /\ \A j, k \in 1..Len(all_panels) :
              j < k => all_panels[j].panel_id.n < all_panels[k].panel_id.n

(***************************************************************************)
(* A whole generate request: the analysis, the generation with the         *)
(* strategy the request names, and the writes (no storage error, no other  *)
(* request at work).  The project may have no room at all, and rooms the   *)
(* services leave out; the parameters are taken as the request gives them. *)
(***************************************************************************)
RequestShapes(service) ==
    IF service = "ceiling"
    THEN {RoomRectB, RoomLNotchMax, RoomTrapezoid, RoomSegment, RoomFlat}
    ELSE {RoomRectB, RoomRectC, RoomLNotchMax, RoomSegment, RoomFlat}

RequestWidths  == {1150, 0}
\* 0: panel_length = 'auto'; below 0: a custom length that is not positive
RequestLengths == {0, 2000, -2000}

InitRequest ==
    /\ \E service \in {"ceiling", "floor"} :
         /\ \E shapes \in ShapeSeqs(RequestShapes(service)) \cup {<<>>} :
               project = [k \in 1..Len(shapes) |-> [id |-> k, points |-> shapes[k]]]
         /\ \E o \in Orientations, w \in RequestWidths, l \in RequestLengths :
               params = [service |-> service, orientation |-> o, panel_width |-> w,
                         panel_length |-> l, tick |-> 1]
    /\ phase = "request"
    /\ cursor = 0
    /\ all_panels = <<>>
    /\ roomlog = <<>>
    /\ analysis = <<>>
    /\ regions = <<>>
    /\ tracker = NewTracker
    /\ clock = 0
    /\ NoInventory
    /\ table = [k \in 1..Len(project) |-> {}]
    /\ plans = {}
    /\ workers = <<>>
    /\ npass = 0
    /\ nfaults = 0
    /\ lastdone = <<>>

\* The while loops of the stripe tilers on one rectangle never end: the
\* loop is entered and what it steps by (the panel width in the inner loop,
\* the stripe length in the outer one) is not above 0.
NeverAdvances(region, orientation, opt) ==
    LET extent_x == region.max_x - region.min_x
        extent_y == region.max_y - region.min_y
        outer == IF orientation = "horizontal" THEN extent_x ELSE extent_y
        inner == IF orientation = "horizontal" THEN extent_y ELSE extent_x
        stripe == IF opt.auto THEN outer ELSE opt.panel_length
    IN  outer > 0 /\ (stripe <= 0 \/ (inner > 0 /\ opt.max_panel_width <= 0))

\* Some region of the room keeps _generate_panels_for_region in its loop.
CeilingRoomHangs(room, opt) ==
    \E o \in Orientations :
        LET room_regions == analyze_room_shape(
                                room.points, calculate_room_bounding_box(room.points), o)
        IN  \E i \in 1..Len(room_regions) : NeverAdvances(room_regions[i], o, opt)

\* analyze_orientation_strategies tiles every room of the height group in
\* both orientations before anything is generated.
CeilingRequestHangs(rooms, prm) ==
    \E k \in 1..Len(rooms) :
        ValidRoom(rooms[k]) /\ CeilingRoomHangs(rooms[k], AnalysisOpt(prm))

\* The rectangles _generate_floor_panels hands to the standard tiler.
FloorBoxes(room, bounding_box, orientation) ==
    LET room_regions == analyze_room_shape(room.points, bounding_box, orientation)
    IN  IF Len(room.points) > 4 /\ room_regions # <<>> THEN room_regions
        ELSE <<bounding_box>>

\* The room loop of analyze_floor_orientation_strategies: the first room it
\* analyzes either has no bounding box (min() raises) or is tiled.
RECURSIVE FloorRequestHangs(_, _, _)
FloorRequestHangs(rooms, prm, i) ==
    IF i > Len(rooms) THEN FALSE
    ELSE IF calculate_room_floor_area(rooms[i].points, DEFAULT_WALL_THICKNESS) <= 0
         THEN FloorRequestHangs(rooms, prm, i + 1)
         ELSE LET bounding_box == calculate_room_floor_bounding_box(
                                      rooms[i].points, DEFAULT_WALL_THICKNESS)
              IN  IF bounding_box = <<>> THEN FALSE
                  ELSE \/ \E o \in Orientations :
                            LET boxes == FloorBoxes(rooms[i], bounding_box[1], o)
                            IN  \E j \in 1..Len(boxes) :
                                    NeverAdvances(boxes[j], o, Opt(prm))
                       \/ FloorRequestHangs(rooms, prm, i + 1)

RequestHangs(rooms, prm) ==
    IF prm.service = "ceiling" THEN CeilingRequestHangs(rooms, prm)
    ELSE FloorRequestHangs(rooms, prm, 1)

\* strategy_name = orientation_strategy, for a request that names one
StrategyName(orientation) ==
    IF orientation = "vertical" THEN "all_vertical" ELSE "all_horizontal"

\* for strategy in strategies: if strategy['strategy_name'] == strategy_name;
\* <<>> stands for None.
SelectedStrategy(strategies, strategy_name) ==
    LET Named(strategy) == strategy.strategy_name = strategy_name
        hits == SelectSeq(strategies, Named)
    IN  IF hits = <<>> THEN <<>> ELSE <<hits[1]>>

\* The rooms of strategy['room_results'], as _get_room_info_by_id reads them.
StrategyRooms(strategy, rooms) ==
    [k \in 1..Len(strategy.room_results) |->
        rooms[CHOOSE j \in 1..Len(rooms) :
                 rooms[j].id = strategy.room_results[k].room_id]]

Outcome(a, error, panels) == [analysis |-> a, error |-> error, panels |-> panels]

\* generate_enhanced_ceiling_plan up to enhanced_panels
generate_enhanced_ceiling_plan(rooms, prm, now) ==
    Only({IF a.error # "" THEN Outcome(a, a.error, <<>>)
          ELSE LET selected_strategy ==
                       SelectedStrategy(a.strategies, StrategyName(prm.orientation))
               IN  IF selected_strategy = <<>>
                   THEN Outcome(a, "Strategy not found", <<>>)
                   ELSE Outcome(a, "",
                                generate_enhanced_panels_for_strategy(
                                    StrategyRooms(selected_strategy[1], rooms), prm)) :
          a \in {analyze_orientation_strategies(rooms, prm, now)}})

\* generate_floor_plan up to all_floor_panels
generate_floor_plan(rooms, prm, now) ==
    Only({IF a.error # "" THEN Outcome(a, a.error, <<>>)
          ELSE IF SelectedStrategy(a.strategies, StrategyName(prm.orientation)) = <<>>
               THEN Outcome(a, "Strategy not found", <<>>)
               ELSE Outcome(a, "",
                            generate_floor_room_panels(
                                rooms, prm, 1,
                                [panels |-> <<>>, trk |-> NewTracker, clock |-> 0])) :
          a \in {analyze_floor_orientation_strategies(rooms, prm, now)}})

\* What the service answers for the rooms and parameters of a request that
\* comes back.
RequestOutcome(rooms, prm) ==
    IF prm.service = "ceiling" THEN generate_enhanced_ceiling_plan(rooms, prm, 0)
    ELSE generate_floor_plan(rooms, prm, 0)

\* The request stays in a loop of the tiler and is never answered.
Hang ==
    /\ phase = "request"
    /\ RequestHangs(project, params)
    /\ phase' = "hung"
    /\ UNCHANGED <<project, params, cursor, all_panels, roomlog, analysis, regions,
                   tracker,
                   clock, invVars, dbVars>>

\* The analysis and the generation of the request: the error is returned,
\* or the panels stand before the writes.
Generate ==
    /\ phase = "request"
    /\ ~RequestHangs(project, params)
    /\ \E r \in {RequestOutcome(project, params)} :
          /\ analysis' = r.analysis
          /\ all_panels' = r.panels
          /\ phase' = IF r.error # "" THEN "error" ELSE "generated"
    /\ UNCHANGED <<project, params, cursor, roomlog, regions, tracker, clock, invVars,
                   dbVars>>

\* The rooms the request writes a plan and panels for.
WrittenRooms ==
    LET ids == IF params.service = "ceiling" THEN RoomOrder(all_panels, 1, <<>>)
               ELSE FloorRoomIds(project)
    IN  {ids[k] : k \in 1..Len(ids)}

\* _create_enhanced_ceiling_plans / the writes in the room loop of
\* generate_floor_plan: per room the plan, the delete and the new panels.
StorePlans ==
    /\ phase = "generated"
    /\ plans' = plans \cup WrittenRooms
    /\ table' = [r \in DOMAIN table |->
                   IF r \in WrittenRooms
                   THEN {Row(1, all_panels[k]) : k \in PanelsOf(r)}
                   ELSE table[r]]
    /\ phase' = "done"
    /\ UNCHANGED <<project, params, cursor, all_panels, roomlog, analysis, regions,
                   tracker,
                   clock, invVars, workers, npass, nfaults, lastdone>>

NextRequest ==
    \/ Hang
    \/ Generate
    \/ StorePlans

SpecRequest == InitRequest /\ [][NextRequest]_vars

(***************************************************************************)
(* Claims about a whole request                                            *)
(***************************************************************************)
\* panel_width <= 0, or a custom panel length <= 0
InvalidParams(prm) == prm.panel_width <= 0 \/ prm.panel_length < 0

\* Nothing has been emitted and no plan or panel row written.
NothingPersisted ==
    /\ all_panels = <<>>
    /\ plans = {}
    /\ \A r \in DOMAIN table : table[r] = {}

\* C16: a request with panel_width <= 0 or with a custom panel length <= 0
\* is answered with an error (it is never left unanswered in the tiler and
\* never generates), and no panel is emitted or persisted.
C16_InvalidParams ==
    InvalidParams(params) =>
        /\ phase \in {"request", "error"}
        /\ NothingPersisted

\* No room of the project has at least 3 points and an area above 0.
NoEligibleRooms == \A k \in 1..Len(project) : ~ValidRoom(project[k])

\* C17: a request on a project without an eligible room is answered with
\* an error and persists nothing.
C17_NoEligibleRooms ==
    NoEligibleRooms =>
        /\ phase \in {"request", "error"}
        /\ NothingPersisted

\* The panel rows a request with the same parameters stores for a room
\* when the project holds its eligible rooms only.
RowsWithoutFailing(room_id) ==
    LET r == RequestOutcome(SelectSeq(project, ValidRoom), params)
    IN  {Row(1, r.panels[k]) :
            k \in {j \in 1..Len(r.panels) : r.panels[j].room_id = room_id}}

LShape(x0, w, h, a, b, c) ==
    LET P(x, y) == Pt(x0 + x, x0 + y)
    IN  CASE c = 1 -> <<P(a, 0), P(w, 0), P(w, h), P(0, h), P(0, b), P(a, b)>>
          [] c = 2 -> <<P(0, 0), P(w - a, 0), P(w - a, b), P(w, b), P(w, h), P(0, h)>>
          [] c = 3 -> <<P(0, 0), P(w, 0), P(w, h - b), P(w - a, h - b), P(w - a, h),
                        P(0, h)>>
          [] OTHER -> <<P(0, 0), P(w, 0), P(w, h), P(a, h), P(a, h - b), P(0, h - b)>>

LOrigins == {0, 300}
LSides   == {2000, 3000}
LNotches == {1000, 1500}

\* the L-shaped room of the specification's scenario S6
RoomLSpec == LShape(0, 2000, 2000, 1000, 1000, 3)

DecomposerShapes ==
    RoomShapes \cup {LShape(x0, w, h, a, b, c) :
                        x0 \in LOrigins, w \in LSides, h \in LSides,
                        a \in LNotches, b \in LNotches, c \in 1..4}

InitDecomposer ==
    /\ \E sh \in DecomposerShapes : project = <<[id |-> 1, points |-> sh]>>
    /\ \E o \in Orientations : params = [orientation |-> o]
    /\ phase = "shape"
    /\ cursor = 0
    /\ all_panels = <<>>
    /\ roomlog = <<>>
    /\ analysis = <<>>
    /\ regions = <<>>
    /\ tracker = NewTracker
    /\ clock = 0
    /\ NoInventory
    /\ NoPersistence

\* sorted(set(coords))
RECURSIVE SortedSeq(_)
SortedSeq(S) ==
    IF S = {} THEN <<>> ELSE <<MinOf(S)>> \o SortedSeq(S \ {MinOf(S)})

\* The filter loop of create_universal_grid_regions: a coordinate is kept
\* when it is at least 1 % of the extent above the last one kept; the last
\* coordinate is always appended.
RECURSIVE Significant(_, _, _, _)
Significant(unique, extent, i, kept) ==
    IF i > Len(unique) - 1 THEN Append(kept, unique[Len(unique)])
    ELSE Significant(unique, extent, i + 1,
                     IF 100 * (unique[i] - kept[Len(kept)]) >= extent
                     THEN Append(kept, unique[i]) ELSE kept)

SignificantCoords(coords) ==
    LET unique == SortedSeq(coords)
    IN  Significant(unique, MaxOf(coords) - MinOf(coords), 2, <<unique[1]>>)

\* if center_inside or corners_inside >= 3
CellKept(cell, room_points) ==
    LET center_inside == is_point_in_polygon(cell.min_x + cell.max_x,
                                             cell.min_y + cell.max_y, room_points)
        corners == <<Pt(cell.min_x, cell.min_y), Pt(cell.max_x, cell.min_y),
                     Pt(cell.max_x, cell.max_y), Pt(cell.min_x, cell.max_y)>>
        corners_inside ==
            Cardinality({k \in 1..4 : is_point_in_polygon(2 * corners[k].x,
                                                          2 * corners[k].y,
                                                          room_points)})
    IN  center_inside \/ corners_inside >= 3

\* create_universal_grid_regions (test_universal_algorithm.py): the cells
\* in the order of the loops, i over x outside and j over y inside.
create_universal_grid_regions(room_points) ==
    LET significant_x == SignificantCoords(XCoords(room_points))
        significant_y == SignificantCoords(YCoords(room_points))
        nx == Len(significant_x) - 1
        ny == Len(significant_y) - 1
        Cell(n) == LET i == ((n - 1) \div ny) + 1
                       j == ((n - 1) % ny) + 1
                   IN  [min_x |-> significant_x[i], max_x |-> significant_x[i + 1],
                        min_y |-> significant_y[j], max_y |-> significant_y[j + 1],
                        width |-> significant_x[i + 1] - significant_x[i],
                        height |-> significant_y[j + 1] - significant_y[j]]
        Kept(cell) == CellKept(cell, room_points)
    IN  SelectSeq([n \in 1..(nx * ny) |-> Cell(n)], Kept)

\* CeilingService._analyze_room_shape(room_points, bounding_box, orientation)
AnalyzeRoomShape ==
    /\ phase = "shape"
    /\ regions' = analyze_room_shape(project[1].points,
                                     calculate_room_bounding_box(project[1].points),
                                     params.orientation)
    /\ phase' = "regions"
    /\ UNCHANGED <<project, params, cursor, all_panels, roomlog, analysis, tracker,
                   clock, invVars, dbVars>>

\* create_universal_grid_regions(point_tuples, points)
UniversalGrid ==
    /\ phase = "shape"
    /\ regions' = create_universal_grid_regions(project[1].points)
    /\ phase' = "cells"
    /\ UNCHANGED <<project, params, cursor, all_panels, roomlog, analysis, tracker,
                   clock, invVars, dbVars>>

NextDecomposer ==
    \/ AnalyzeRoomShape
    \/ UniversalGrid

SpecDecomposer == InitDecomposer /\ [][NextDecomposer]_vars

(***************************************************************************)
(* Claims about the shape decomposers                                      *)
(***************************************************************************)
\* sum(r['width'] * r['height'] for r in regions)
RECURSIVE RegionArea(_, _)
RegionArea(rs, i) ==
    IF i > Len(rs) THEN 0
    ELSE rs[i].width * rs[i].height + RegionArea(rs, i + 1)

\* |total_region_area - actual_area| <= 5 % of actual_area
WithinTolerance(rs, points) ==
    20 * Abs(2 * RegionArea(rs, 1) - PolygonArea2(points)) <= PolygonArea2(points)

\* (min_x, min_y, max_x, max_y) of a rectangle
Corners(r) == <<r.min_x, r.min_y, r.max_x, r.max_y>>

\* The one rectangle is the bounding box of the polygon.
IsBoundingBox(rs, points) ==
    /\ Len(rs) = 1
    /\ Corners(rs[1]) = Corners(calculate_room_bounding_box(points))

\* C19: whatever the room polygon, the rectangles a decomposer answers have
\* a total area within 5 % of the polygon's area, or they are the one
\* rectangle of the polygon's bounding box.
C19_CoverageOrBoundingBox ==
    phase \in {"regions", "cells"} =>
        \/ WithinTolerance(regions, project[1].points)
        \/ IsBoundingBox(regions, project[1].points)

\* C20: for the L-shaped polygon (0,0) (2000,0) (2000,1000) (1000,1000)
\* (1000,2000) (0,2000) a decomposer answers exactly the two cells
\* (0,0,2000,1000) and (0,1000,1000,2000): their areas add up to the
\* polygon's and no cell outside the polygon is among them.
C20_LShapeCells ==
    (phase \in {"regions", "cells"} /\ project[1].points = RoomLSpec) =>
        /\ Len(regions) = 2
        /\ {Corners(regions[k]) : k \in 1..Len(regions)}
              = {<<0, 0, 2000, 1000>>, <<0, 1000, 1000, 2000>>}
        /\ 2 * RegionArea(regions, 1) = PolygonArea2(RoomLSpec)

(***************************************************************************)
(* The body of the tiling loops, one panel at a time: every step is one    *)
(* pass through the "LEFTOVER TRACKING" block and the panels.append that   *)
(* follows it, on the tracker of the pass.  The cross dimension and the    *)
(* length along the stripe are what the loops computed for the panel; the  *)
(* thickness is the one handed down to the tiler for the room at hand.     *)
(* born[i] is the number of the panel whose cut made tracker.leftovers[i]; *)
(* roomlog[k] keeps, for panel k, the tracker it met and what it took.     *)
(***************************************************************************)
MaxEmits == 3

CutCross       == {350, 450, 1150}
CutAlong       == {2000, 3000}
CutThicknesses == {FLOOR_THICKNESS, CEILING_THICKNESS}

InitCut ==
    /\ \E service \in {"ceiling", "floor"}, o \in Orientations, t \in ClockTicks :
          params = [service |-> service, orientation |-> o,
                    panel_width |-> MAX_PANEL_WIDTH, panel_length |-> 0, tick |-> t]
    /\ project = <<>>
    /\ phase = "tiling"
    /\ cursor = 0
    /\ all_panels = <<>>
    /\ roomlog = <<>>
    /\ analysis = <<>>
    /\ regions = <<>>
    /\ tracker = NewTracker
    /\ clock = 0
    /\ NoInventory
    /\ NoPersistence

\* The panel of cross dimension `cross` and length `along` as the loop of
\* the orientation lays it: [width, height].
CutSize(cross, along) ==
    IF params.orientation = "horizontal" THEN [w |-> along, h |-> cross]
    ELSE [w |-> cross, h |-> along]

\* The state the loop body runs in: leftover_tracker is the tracker of the
\* pass, or None (tracked = FALSE).
CutState(tracked) ==
    [panels |-> <<>>, trk |-> tracker, tracked |-> tracked, clock |-> clock,
     panel_id |-> cursor + 1, failed |-> FALSE]

\* What the step leaves in the history variables, r being the tiler state
\* after the loop body.
CutRecord(r, tracked, cross, along, thickness) ==
    LET found == IF tracked /\ cross < MAX_PANEL_WIDTH
                 THEN find_compatible_leftover(tracker, cross, along, thickness)
                 ELSE 0
        grown == Len(r.trk.leftovers) > Len(tracker.leftovers)
        shrunk == Len(r.trk.leftovers) < Len(tracker.leftovers)
    IN  /\ all_panels' = all_panels \o r.panels
        /\ tracker' = r.trk
        /\ clock' = r.clock
        /\ born' = IF grown THEN Append(born, cursor + 1)
                   ELSE IF shrunk
                        THEN RemoveAt(born, FirstEqual(tracker.leftovers,
                                                       tracker.leftovers[found], 1))
                        ELSE born
        /\ roomlog' = Append(roomlog,
                             [tracker |-> tracker, after |-> r.trk,
                              tracked |-> tracked,
                              cross |-> cross, along |-> along,
                              thickness |-> thickness, found |-> found,
                              stock |-> IF found # 0 THEN born[found] ELSE 0])
        /\ cursor' = cursor + 1
        /\ UNCHANGED <<project, params, phase, analysis, regions, nadds, nuses, last,
                       dbVars>>

\* _generate_panels_for_region: one pass of the inner loop body.
EmitCeilingPanel(cross, along, thickness) ==
    /\ params.service = "ceiling"
    /\ phase = "tiling"
    /\ cursor < MaxEmits
    /\ LET size == CutSize(cross, along)
           region == Box(0, size.w, 0, size.h, "rectangular")
           opt == [Opt(params) EXCEPT !.thickness = thickness]
           r == EmitCeiling(CutState(TRUE), region, opt, 0, 0, size.w, size.h,
                            cross, along,
                            IF params.orientation = "horizontal" THEN "CP_H"
                            ELSE "CP_V")
       IN  CutRecord(r, TRUE, cross, along, thickness)

\* _generate_standard_floor_panels: one pass of the inner loop body.  It is
\* called with the tracker of the pass from _generate_floor_panels and
\* without one from _generate_panels_for_floor_region.
EmitFloorPanel(tracked, cross, along, thickness) ==
    /\ params.service = "floor"
    /\ phase = "tiling"
    /\ cursor < MaxEmits
    /\ LET size == CutSize(cross, along)
           bounding_box == Box(0, size.w, 0, size.h, "bounding_box")
           opt == [Opt(params) EXCEPT !.thickness = thickness]
           r == EmitFloor(CutState(tracked), bounding_box, opt, 0, 0, size.w, size.h,
                          cross, along)
       IN  CutRecord(r, tracked, cross, along, thickness)

NextCut ==
    \/ \E cross \in CutCross, along \in CutAlong, thickness \in CutThicknesses :
          EmitCeilingPanel(cross, along, thickness)
    \/ \E tracked \in BOOLEAN, cross \in CutCross, along \in CutAlong,
          thickness \in CutThicknesses :
          EmitFloorPanel(tracked, cross, along, thickness)

SpecCut == InitCut /\ [][NextCut]_vars

(***************************************************************************)
(* Claims about the cut-panel policy                                       *)
(***************************************************************************)
\* The leftovers of trk that could give a panel of that size.
Fitting(trk, cross, along, thickness) ==
    {i \in 1..Len(trk.leftovers) :
       /\ trk.leftovers[i].length >= along
       /\ trk.leftovers[i].thickness = thickness
       /\ trk.leftovers[i].width >= cross}

\* Panel k needed a cut: it is narrower than a stock panel.
NeedsCut(k) == roomlog[k].cross < MAX_PANEL_WIDTH

\* trk with the leftover at position i consumed by a panel of width `cross`.
Consumed(trk, i, cross) ==
    IF trk.leftovers[i].width - cross <= 0
    THEN RemoveAt(trk.leftovers, i)
    ELSE [trk.leftovers EXCEPT ![i].width = @ - cross]

\* C21: whenever the tiler needs a cut panel and the inventory of the pass
\* holds a compatible leftover, that leftover is consumed, the emitted panel
\* carries from_leftover = true and cut_notes "From leftover <id>", and no
\* new leftover is added for that panel.
C21_LeftoverConsumed ==
    \A k \in 1..Len(roomlog) :
        LET e == roomlog[k]
            fit == Fitting(e.tracker, e.cross, e.along, e.thickness)
        IN  (NeedsCut(k) /\ fit # {}) =>
                \E i \in fit :
                    /\ e.after.leftovers = Consumed(e.tracker, i, e.cross)
                    /\ "from_leftover" \in DOMAIN all_panels[k]
                    /\ all_panels[k].from_leftover
                    /\ all_panels[k].cut_notes
                         = Notes("From leftover", e.tracker.leftovers[i].id)
                    /\ e.after.stats.leftovers_created
                         = e.tracker.stats.leftovers_created

\* C22: whenever the tiler emits a cut panel and no compatible leftover is
\* found, exactly one new leftover is added, its length the length of the
\* emitted panel along the stripe, its width MAX_PANEL_WIDTH minus the
\* panel's cross dimension and its thickness the panel thickness of the plan.
C22_LeftoverCreated ==
    \A k \in 1..Len(roomlog) :
        LET e == roomlog[k]
            n == Len(e.tracker.leftovers)
        IN  (all_panels[k].is_cut
             /\ Fitting(e.tracker, e.cross, e.along, e.thickness) = {}) =>
                /\ Len(e.after.leftovers) = n + 1
                /\ SubSeq(e.after.leftovers, 1, n) = e.tracker.leftovers
                /\ e.after.leftovers[n + 1].length = e.along
                /\ e.after.leftovers[n + 1].width = MAX_PANEL_WIDTH - e.cross
                /\ e.after.leftovers[n + 1].thickness = e.thickness
                /\ e.after.stats.leftovers_created
                     = e.tracker.stats.leftovers_created + 1

(***************************************************************************)
(* More claims about the stripe tiler                                      *)
(***************************************************************************)
\* The extent of a panel along its stripe.
AlongStripe(panel) ==
    IF params.orientation = "horizontal" THEN panel.width ELSE panel.length

\* The panel was clipped at the boundary of the region: it is shorter than
\* the requested panel length, or narrower than the requested panel width.
Clipped(panel) ==
    \/ params.panel_length # 0 /\ AlongStripe(panel) < params.panel_length
    \/ CrossStripe(panel) < params.panel_width

\* C23: an emitted panel has is_cut = true if and only if its cross
\* dimension is strictly less than MAX_PANEL_WIDTH or it was clipped at a
\* region boundary; every other panel is a full stock panel, is_cut = false.
C23_IsCut ==
    phase = "tiled" =>
        \A k \in 1..Len(all_panels) :
            all_panels[k].is_cut
                <=> (CrossStripe(all_panels[k]) < MAX_PANEL_WIDTH
                     \/ Clipped(all_panels[k]))

(***************************************************************************)
(* The order of the rooms in a pass.  The rooms of the project are read    *)
(* with Room.objects.filter(project=project): no order_by, and the Room    *)
(* model sets no ordering, so the rows come in whatever order the database *)
(* returns them.  Rooms have a height here; the ceiling service groups     *)
(* them by height before it tiles them.  project lists the rooms by id;    *)
(* analysis holds the rooms in the order the pass goes through them, and   *)
(* roomlog[k] the room gone through at step k with the tracker it met.     *)
(***************************************************************************)
MaxOrderRooms == 3

OrderShapes  == {RoomRectA, RoomRectB}
OrderHeights == {2500, 3000}

InitOrder ==
    /\ \E n \in 2..MaxOrderRooms :
         \E shapes \in [1..n -> OrderShapes], heights \in [1..n -> OrderHeights] :
            project = [k \in 1..n |-> [id |-> k, points |-> shapes[k],
                                       height |-> heights[k]]]
    /\ \E service \in {"ceiling", "floor"}, o \in Orientations :
          params = [service |-> service, orientation |-> o,
                    panel_width |-> MAX_PANEL_WIDTH, panel_length |-> 0, tick |-> 1]
    /\ phase = "query"
    /\ cursor = 0
    /\ all_panels = <<>>
    /\ roomlog = <<>>
    /\ analysis = <<>>
    /\ regions = <<>>
    /\ tracker = NewTracker
    /\ clock = 0
    /\ NoInventory
    /\ NoPersistence

\* The orders in which a query without ORDER BY can return n rows.
RowOrders(n) == {p \in [1..n -> 1..n] : \A i, j \in 1..n : i # j => p[i] # p[j]}

\* The heights of the rows, each once, in the order of first appearance:
\* the keys of the dict height_groups.
RECURSIVE GroupHeights(_, _, _)
GroupHeights(rows, i, seen) ==
    IF i > Len(rows) THEN seen
    ELSE GroupHeights(rows, i + 1,
                      IF \E g \in 1..Len(seen) : seen[g] = rows[i].height THEN seen
                      ELSE Append(seen, rows[i].height))

\* analyze_project_heights: height_groups, each with its rooms in row order.
height_groups(rows) ==
    LET heights == GroupHeights(rows, 1, <<>>)
    IN  [g \in 1..Len(heights) |->
            [height |-> heights[g],
             rooms  |-> SelectSeq(rows, LAMBDA room : room.height = heights[g])]]

\* _evaluate_strategy: room_results.extend(group_result['room_results'])
\* over height_groups.items().
RECURSIVE RoomResults(_, _)
RoomResults(groups, g) ==
    IF g > Len(groups) THEN <<>>
    ELSE groups[g].rooms \o RoomResults(groups, g + 1)

\* The rooms in the order the pass tiles them: the room_results of the
\* strategy (ceiling), the rows themselves (floor).
PassOrder(rows) ==
    IF params.service = "ceiling" THEN RoomResults(height_groups(rows), 1)
    ELSE rows

\* Room.objects.filter(project=project) and what the service makes of it.
QueryRooms ==
    /\ phase = "query"
    /\ \E p \in RowOrders(Len(project)) :
          analysis' = PassOrder([k \in 1..Len(project) |-> project[p[k]]])
    /\ phase' = "generate"
    /\ UNCHANGED <<project, params, cursor, all_panels, roomlog, regions, tracker,
                   clock, invVars, dbVars>>

\* The tiling of one room on the tracker and clock of st.
TileOne(st, room) ==
    IF params.service = "ceiling"
    THEN generate_advanced_panels(st, room.points, params.orientation, Opt(params))
    ELSE generate_floor_panels(
             st,
             calculate_room_floor_bounding_box(room.points, DEFAULT_WALL_THICKNESS)[1],
             room.points, params.orientation, Opt(params))

\* One iteration of the room loop of the pass.
TileRoom ==
    /\ phase = "generate"
    /\ cursor < Len(analysis)
    /\ LET room == analysis[cursor + 1]
           st == [panels |-> <<>>, trk |-> tracker, tracked |-> TRUE, clock |-> clock,
                  panel_id |-> 1, failed |-> FALSE]
           r == TileOne(st, room)
       IN  /\ all_panels' = all_panels \o WithRoom(r.panels, room.id)
           /\ tracker' = r.trk
           /\ clock' = r.clock
           /\ roomlog' = Append(roomlog, [room_id |-> room.id, failed |-> r.failed,
                                          skipped |-> FALSE, tracker |-> tracker])
    /\ cursor' = cursor + 1
    /\ UNCHANGED <<project, params, phase, analysis, regions, invVars, dbVars>>

\* The end of the room loop.
FinishPass ==
    /\ phase = "generate"
    /\ cursor = Len(analysis)
    /\ phase' = "done"
    /\ UNCHANGED <<project, params, cursor, all_panels, roomlog, analysis, regions,
                   tracker, clock, invVars, dbVars>>

NextOrder ==
    \/ QueryRooms
    \/ TileRoom
    \/ FinishPass

SpecOrder == InitOrder /\ [][NextOrder]_vars

\* The tracker left by tiling the rooms project[1..n], in that order, from a
\* fresh tracker.
RECURSIVE TiledUpTo(_)
TiledUpTo(n) ==
    IF n = 0
    THEN [panels |-> <<>>, trk |-> NewTracker, tracked |-> TRUE, clock |-> 0,
          panel_id |-> 1, failed |-> FALSE]
    ELSE TileOne(TiledUpTo(n - 1), project[n])

\* C24: in every generation pass the rooms are processed in ascending room
\* id order, so the leftovers available when a room is tiled are exactly
\* those left by the rooms with smaller ids.
C24_AscendingIds ==
    /\ \A k \in 1..(Len(roomlog) - 1) : roomlog[k].room_id < roomlog[k + 1].room_id
    /\ \A k \in 1..Len(roomlog) :
          roomlog[k].tracker.leftovers = TiledUpTo(roomlog[k].room_id - 1).trk.leftovers

(***************************************************************************)
(* A ceiling request strategy by strategy: the candidates are evaluated in *)
(* turn, ranked, one is selected (the recommended one for 'auto', the one  *)
(* the request names otherwise) and the pass that is persisted tiles its   *)
(* rooms.  Rooms have a height.  params.orientation is the                 *)
(* orientation_strategy of the request.  analysis is the list of           *)
(* candidates while they are evaluated and the answer of the analysis      *)
(* afterwards; tracker is the LeftoverTracker created last; roomlog has    *)
(* one entry per tracker an evaluation created (room_id 0) and one per     *)
(* room of the persisted pass, with the inventory at its start and end.    *)
(***************************************************************************)
MaxStrategyRooms == 2

StrategyShapes  == {RoomRectA, RoomRectB, RoomRectC}
StrategyHeights == {2500, 3000}
StrategyNames   == <<"all_vertical", "all_horizontal", "room_optimal",
                     "project_merged">>

\* The orientation_type _evaluate_strategy is called with for a strategy.
OrientationType(strategy_name) ==
    CASE strategy_name = "all_vertical"   -> "vertical"
      [] strategy_name = "all_horizontal" -> "horizontal"
      [] strategy_name = "room_optimal"   -> "independent"
      [] OTHER                            -> "merged"

InitStrategy ==
    /\ \E n \in 1..MaxStrategyRooms :
         \E shapes \in [1..n -> StrategyShapes], heights \in [1..n -> StrategyHeights] :
            project = [k \in 1..n |-> [id |-> k, points |-> shapes[k],
                                       height |-> heights[k]]]
    /\ \E s \in {"auto"} \cup {StrategyNames[k] : k \in 1..Len(StrategyNames)} :
          params = [service |-> "ceiling", orientation |-> s,
                    panel_width |-> MAX_PANEL_WIDTH, panel_length |-> 0, tick |-> 1]
    /\ phase = "analyze"
    /\ cursor = 0
    /\ all_panels = <<>>
    /\ roomlog = <<>>
    /\ analysis = <<>>
    /\ regions = <<>>
    /\ tracker = NewTracker
    /\ clock = 0
    /\ NoInventory
    /\ NoPersistence

\* height_analysis['all_same_height']
all_same_height(groups) == Len(groups) = 1

\* _can_merge_rooms_for_ceiling(rooms, group_bounding_box)
can_merge_rooms_for_ceiling(rooms) ==
    LET group_bounding_box == calculate_room_bounding_box(AllPoints(rooms, 1))
        merged_bounding_area == group_bounding_box.width * group_bounding_box.height
    IN  /\ Len(rooms) > 1
        /\ merged_bounding_area > 0
        /\ 10 * TotalRoomArea2(rooms, 1) > 7 * 2 * merged_bounding_area

\* The strategies analyze_orientation_strategies evaluates, in its order.
StrategiesToEvaluate(groups) ==
    IF all_same_height(groups) THEN StrategyNames
    ELSE SubSeq(StrategyNames, 1, 3)

\* _evaluate_group_fixed_orientation / _evaluate_group_independent_orientation
\* on one height group, with the tracker they create.
evaluate_group(rooms, orientation_type, opt, now) ==
    IF orientation_type = "independent"
    THEN evaluate_group_independent_orientation(rooms, opt, 1, EvalStart(now))
    ELSE evaluate_group_fixed_orientation(rooms, orientation_type, opt, 1,
                                          EvalStart(now))

\* Sums over the group results of _evaluate_strategy.
RECURSIVE SumGroups(_, _, _)
SumGroups(results, g, acc) ==
    IF g > Len(results) THEN acc
    ELSE SumGroups(
             results, g + 1,
             [total_panels |-> acc.total_panels + results[g].total_panels,
              room_results |-> acc.room_results \o results[g].room_results,
              stats |->
                [leftovers_created |->
                     acc.stats.leftovers_created
                     + results[g].trk.stats.leftovers_created,
                 leftovers_reused |->
                     acc.stats.leftovers_reused
                     + results[g].trk.stats.leftovers_reused,
                 full_panels_saved |->
                     acc.stats.full_panels_saved
                     + results[g].trk.stats.full_panels_saved,
                 total_leftover_area |->
                     acc.stats.total_leftover_area
                     + results[g].trk.stats.total_leftover_area]])

\* _evaluate_strategy over the height groups: results[g] is the result of
\* group g.
evaluate_strategy_groups(groups, results, strategy_name) ==
    LET rooms == RoomResults(groups, 1)
        total_room_area == TotalRoomArea2(rooms, 1)
        sum == SumGroups(results, 1, [total_panels |-> 0, room_results |-> <<>>,
                                      stats |-> EmptyStats])
    IN  IF OrientationType(strategy_name) = "merged"
        THEN evaluate_merged_strategy(groups[1].rooms, strategy_name, 0)
        ELSE [strategy_name    |-> strategy_name,
              orientation_type |-> OrientationType(strategy_name),
              total_panels     |-> sum.total_panels,
              waste            |-> Percentage(2 * sum.stats.total_leftover_area,
                                              total_room_area),
              total_room_area  |-> total_room_area,
              room_results     |-> sum.room_results,
              stats            |-> sum.stats]

\* One call of _evaluate_strategy in analyze_orientation_strategies.
EvaluateStrategy ==
    /\ phase = "analyze"
    /\ LET groups == height_groups(project)
           names == StrategiesToEvaluate(groups)
       IN  /\ cursor < Len(names)
           /\ LET strategy_name == names[cursor + 1]
                  orientation_type == OrientationType(strategy_name)
                  results == IF orientation_type = "merged" THEN <<>>
                             ELSE [g \in 1..Len(groups) |->
                                     evaluate_group(groups[g].rooms, orientation_type,
                                                    AnalysisOpt(params), clock)]
              IN  /\ analysis' = Append(analysis,
                                        evaluate_strategy_groups(groups, results,
                                                                 strategy_name))
                  /\ roomlog' = roomlog \o
                                  [g \in 1..Len(results) |->
                                     [run |-> strategy_name, room_id |-> 0,
                                      group |-> g,
                                      orientation |-> orientation_type,
                                      start |-> EvalStart(clock).trk,
                                      end |-> results[g].trk]]
                  /\ tracker' = IF results = <<>> THEN tracker
                                ELSE results[Len(results)].trk
    /\ cursor' = cursor + 1
    /\ UNCHANGED <<project, params, phase, all_panels, regions, clock, invVars,
                   dbVars>>

\* project_leftover_tracker = LeftoverTracker(context='GENERATION')
GenerationStart == NewTracker

\* The sort of analyze_orientation_strategies and the choice of the strategy
\* in generate_enhanced_ceiling_plan, up to the tracker of the pass.
SelectStrategy ==
    /\ phase = "analyze"
    /\ cursor = Len(StrategiesToEvaluate(height_groups(project)))
    /\ LET strategies == SortByWaste(analysis, 1, <<>>)
           strategy_name == IF params.orientation = "auto"
                            THEN strategies[1].strategy_name
                            ELSE params.orientation
           selected_strategy == SelectedStrategy(strategies, strategy_name)
       IN  /\ analysis' = [error |-> IF selected_strategy = <<>>
                                     THEN "Strategy not found" ELSE "",
                           candidates |-> analysis,
                           strategies |-> strategies,
                           recommended_strategy |-> strategies[1].strategy_name,
                           best |-> strategies[1],
                           selected |-> selected_strategy]
           /\ phase' = IF selected_strategy = <<>> THEN "error" ELSE "generate"
    /\ tracker' = GenerationStart
    /\ cursor' = 0
    /\ UNCHANGED <<project, params, all_panels, roomlog, regions, clock, invVars,
                   dbVars>>

\* The rooms the persisted pass tiles, each with its orientation:
\* _generate_enhanced_merged_panels tiles the rooms of the first height
\* group 'horizontal', _generate_enhanced_room_panels the room_results.
PassRooms ==
    LET strategy == analysis.selected[1]
    IN  IF strategy.orientation_type = "merged"
        THEN LET rooms == height_groups(project)[1].rooms
             IN  [k \in 1..Len(rooms) |-> [room |-> rooms[k],
                                           orientation |-> "horizontal"]]
        ELSE LET rooms == StrategyRooms(strategy, project)
             IN  [k \in 1..Len(rooms) |->
                     [room |-> rooms[k],
                      orientation |-> strategy.room_results[k].orientation]]

\* One iteration of the room loop of the persisted pass.
GenerateRoom ==
    /\ phase = "generate"
    /\ cursor < Len(PassRooms)
    /\ LET next == PassRooms[cursor + 1]
           st == [panels |-> <<>>, trk |-> tracker, tracked |-> TRUE, clock |-> clock,
                  panel_id |-> 1, failed |-> FALSE]
           r == generate_advanced_panels(st, next.room.points, next.orientation,
                                         Opt(params))
       IN  /\ all_panels' = all_panels \o WithRoom(r.panels, next.room.id)
           /\ tracker' = r.trk
           /\ clock' = r.clock
           /\ roomlog' = Append(roomlog, [run |-> "generation",
                                          room_id |-> next.room.id,
                                          group |-> 0,
                                          orientation |-> next.orientation,
                                          start |-> tracker, end |-> r.trk])
    /\ cursor' = cursor + 1
    /\ UNCHANGED <<project, params, phase, analysis, regions, invVars, dbVars>>

\* The tail of _generate_enhanced_panels_for_strategy: the tracker's stats
\* are the leftover_stats of the answer.
GenerateFinish ==
    /\ phase = "generate"
    /\ cursor = Len(PassRooms)
    /\ all_panels' = optimize_panel_placement(all_panels)
    /\ phase' = "done"
    /\ UNCHANGED <<project, params, cursor, roomlog, analysis, regions, tracker, clock,
                   invVars, dbVars>>

NextStrategy ==
    \/ EvaluateStrategy
    \/ SelectStrategy
    \/ GenerateRoom
    \/ GenerateFinish

SpecStrategy == InitStrategy /\ [][NextStrategy]_vars

(***************************************************************************)
(* Claims about the strategies of a request                                *)
(***************************************************************************)
\* The inventory with nothing in it and nothing counted.
EmptyInventory(trk) == trk.leftovers = <<>> /\ trk.stats = EmptyStats

\* The inventory a strategy leaves when its height group is tiled on its
\* own, from an empty inventory.
AloneInventory(entry) ==
    LET rooms == height_groups(project)[entry.group].rooms
        start == [trk |-> NewTracker, clock |-> 0, total_panels |-> 0,
                  room_results |-> <<>>]
    IN  IF entry.orientation = "independent"
        THEN evaluate_group_independent_orientation(rooms, AnalysisOpt(params), 1,
                                                    start).trk
        ELSE evaluate_group_fixed_orientation(rooms, entry.orientation,
                                              AnalysisOpt(params), 1, start).trk

\* C25: each candidate strategy is evaluated against its own inventory, which
\* starts empty and is written by no other strategy's evaluation (it ends as
\* the strategy alone leaves it), and the pass that persists panels starts
\* from an empty inventory, with no leftover created during the analysis.
C25_FreshInventories ==
    /\ \A k \in 1..Len(roomlog) :
          roomlog[k].room_id = 0 =>
              /\ EmptyInventory(roomlog[k].start)
              /\ roomlog[k].end = AloneInventory(roomlog[k])
    /\ \A k \in 1..Len(roomlog) :
          (roomlog[k].run = "generation"
           /\ (k = 1 \/ roomlog[k - 1].run # "generation"))
              => EmptyInventory(roomlog[k].start)
    /\ (phase = "generate" /\ cursor = 0) => EmptyInventory(tracker)

\* The persisted pass has begun after four strategies were evaluated, each
\* of the first three leaving leftovers in its inventory.
C25_Witness ==
    /\ phase = "generate"
    /\ cursor >= 1
    /\ Len(analysis.candidates) = 4
    /\ \A k \in 1..3 : roomlog[k].room_id = 0 /\ roomlog[k].end.leftovers # <<>>
    /\ roomlog[Len(roomlog)].run = "generation"

\* The candidates evaluated so far: the list under construction, then the
\* list the answer of the analysis was sorted from.
Candidates == IF phase = "analyze" THEN analysis ELSE analysis.candidates

\* Total room area / area of the bounding box of all rooms is at least 0.7.
MergedEfficiencyAtLeast(rooms) ==
    LET group_bounding_box == calculate_room_bounding_box(AllPoints(rooms, 1))
        merged_bounding_area == group_bounding_box.width * group_bounding_box.height
    IN  /\ merged_bounding_area > 0
        /\ 10 * TotalRoomArea2(rooms, 1) >= 7 * 2 * merged_bounding_area

\* C26: project_merged is among the evaluated candidates (and so can be
\* recommended) only when all rooms have the same height and the area of
\* the rooms is at least 0.7 of the area of their merged bounding box.
C26_MergedAdmissible ==
    \A k \in 1..Len(Candidates) :
        Candidates[k].strategy_name = "project_merged"
            => /\ all_same_height(height_groups(project))
               /\ MergedEfficiencyAtLeast(project)

(***************************************************************************)
(* Claims about the stock panels of a pass                                 *)
(***************************************************************************)
\* The panels whose cut created a leftover: the stock panels that have one.
Stocks ==
    {s \in 1..Len(roomlog) :
       Len(roomlog[s].after.leftovers) > Len(roomlog[s].tracker.leftovers)}

\* The panels taken from the leftover of stock panel s.
TakenFrom(s) == {k \in 1..Len(roomlog) : roomlog[k].stock = s}

\* The sum of the cross dimensions of the emitted panels numbered in S.
RECURSIVE SumCross(_)
SumCross(S) ==
    IF S = {} THEN 0
    ELSE LET k == CHOOSE x \in S : TRUE
         IN  CrossStripe(all_panels[k]) + SumCross(S \ {k})

\* C27: no stock panel is over-consumed.  For every leftover created in the
\* pass, the cross dimension of the panel first cut from its stock panel
\* plus the widths of all panels later taken from the leftover is at most
\* MAX_PANEL_WIDTH, and every panel taken from a leftover comes after its
\* creation, has the leftover's thickness and is no longer than it.
C27_StockNotOverConsumed ==
    /\ \A k \in 1..Len(roomlog) : roomlog[k].found # 0 => roomlog[k].stock \in Stocks
    /\ \A s \in Stocks :
          /\ CrossStripe(all_panels[s]) + SumCross(TakenFrom(s)) <= MAX_PANEL_WIDTH
          /\ \A k \in TakenFrom(s) :
                /\ k > s
                /\ roomlog[k].thickness = roomlog[s].thickness
                /\ AlongStripe(all_panels[k]) <= AlongStripe(all_panels[s])

\* Two panels were taken from the leftover of one stock panel, the second
\* one using it up.
C27_Witness ==
    \E s \in Stocks :
        /\ Cardinality(TakenFrom(s)) = 2
        /\ CrossStripe(all_panels[s]) + SumCross(TakenFrom(s)) = MAX_PANEL_WIDTH
        /\ tracker.leftovers = <<>>
        /\ \E k \in TakenFrom(s) : AlongStripe(all_panels[k]) < AlongStripe(all_panels[s])

\* project_waste_percentage of generate_enhanced_ceiling_plan: the leftover
\* area of the tracker of the persisted pass over the total room area of the
\* selected strategy (areas are kept doubled), 0 when either is 0.
project_waste_percentage ==
    LET total_room_area == analysis.selected[1].total_room_area
        leftover_area == tracker.stats.total_leftover_area
    IN  IF total_room_area > 0 /\ leftover_area > 0
        THEN Percentage(2 * leftover_area, total_room_area)
        ELSE Percentage(0, 1)

\* The panels the persisted pass emitted for a room.
PersistedFor(room_id) ==
    {k \in 1..Len(all_panels) : all_panels[k].room_id = room_id}

\* Two percentages are the same number.
SamePercentage(a, b) ==
    /\ FractionLE(a.num, a.den, b.num, b.den)
    /\ FractionLE(b.num, b.den, a.num, a.den)

\* C28: for the strategy chosen for persistence, the persisted pass gives
\* every room the orientation and the panels of that strategy's analysis
\* run and ends with the same leftover statistics (created, reused, total
\* leftover area), so the waste reported after generation is the
\* waste_percentage the strategy was ranked by.
C28_PassMatchesAnalysis ==
    phase = "done" =>
        LET strategy == analysis.selected[1]
        IN  /\ Len(PassRooms) = Len(strategy.room_results)
            /\ \A k \in 1..Len(PassRooms) :
                  /\ PassRooms[k].room.id = strategy.room_results[k].room_id
                  /\ PassRooms[k].orientation = strategy.room_results[k].orientation
                  /\ Cardinality(PersistedFor(PassRooms[k].room.id))
                       = strategy.room_results[k].panels
            /\ tracker.stats.leftovers_created = strategy.stats.leftovers_created
            /\ tracker.stats.leftovers_reused = strategy.stats.leftovers_reused
            /\ tracker.stats.total_leftover_area = strategy.stats.total_leftover_area
            /\ SamePercentage(project_waste_percentage, strategy.waste)

(***************************************************************************)
(* Claims about the panel ids of a pass                                    *)
(***************************************************************************)
\* The room is decomposed into several regions.
SeveralRegions(room) ==
    Len(analyze_room_shape(room.points, calculate_room_bounding_box(room.points),
                           params.orientation)) > 1

\* C29: within one room, the panels emitted by one pass have pairwise
\* distinct panel_id values, also when the room is decomposed into several
\* regions, so no two of them share (room, panel_id).
C29_DistinctPanelIds ==
    \A i, j \in 1..Len(all_panels) :
        (i # j /\ all_panels[i].room_id = all_panels[j].room_id)
            => all_panels[i].panel_id # all_panels[j].panel_id

\* A finished pass with a room of several regions, tiled by more panels
\* than its first region has, after another room that has panels as well.
C29_Witness ==
    /\ phase = "done"
    /\ \E k \in 2..Len(project) :
          /\ SeveralRegions(project[k])
          /\ Cardinality(PersistedFor(project[k].id)) >= 4
          /\ PersistedFor(project[1].id) # {}
          /\ \E i, j \in PersistedFor(project[k].id) :
                /\ all_panels[i].start_x # all_panels[j].start_x
                /\ all_panels[i].start_y # all_panels[j].start_y

(***************************************************************************)
(* Claims about the number of panels of a region                           *)
(***************************************************************************)
\* ceil(a / b) for a >= 0 and b > 0.
CeilDiv(a, b) == (a + b - 1) \div b

\* The extent of the region across the stripes and along them.
CrossExtent ==
    IF params.orientation = "horizontal" THEN TilerRegion.height ELSE TilerRegion.width
StripeExtent ==
    IF params.orientation = "horizontal" THEN TilerRegion.width ELSE TilerRegion.height

\* The stripe length: the whole extent for 'auto', else the custom length.
StripeLength ==
    IF params.panel_length = 0 THEN StripeExtent ELSE params.panel_length

\* The number of panels the claim gives for the region.
ExpectedPanels ==
    CeilDiv(CrossExtent, params.panel_width) * CeilDiv(StripeExtent, StripeLength)

\* The panels the tiler of the service returns for the region when it is
\* called in the state at hand.
TilerPanels ==
    IF params.service = "ceiling"
    THEN generate_panels_for_region(TilerStart, TilerRegion, params.orientation,
                                    Opt(params)).panels
    ELSE generate_standard_floor_panels(TilerStart, TilerRegion, params.orientation,
                                        Opt(params)).panels

\* C30: for a region of positive width and height, a positive panel_width
\* and a positive stripe length, the loops of the tiler end and emit exactly
\* ceil(cross extent / panel_width) * ceil(stripe extent / stripe length)
\* panels: the call returns, with that many panels, and that many panels
\* are what the run is left with.
C30_PanelCount ==
    (/\ TilerRegion.width > 0
     /\ TilerRegion.height > 0
     /\ params.panel_width > 0
     /\ StripeLength > 0)
        => /\ phase = "tile" => Len(TilerPanels) = ExpectedPanels
           /\ phase = "tiled" => Len(all_panels) = ExpectedPanels

\* A region tiled in three stripes of two panels each, the last stripe
\* narrower and the second panel of every stripe shorter than the first.
C30_Witness ==
    /\ phase = "tiled"
    /\ CeilDiv(CrossExtent, params.panel_width) = 3
    /\ CrossExtent % params.panel_width # 0
    /\ CeilDiv(StripeExtent, StripeLength) = 2
    /\ StripeExtent % StripeLength # 0
    /\ Len(all_panels) = 6

====
